---------------------------- MODULE Spec2Model ----------------------------
(***************************************************************************)
(* Verification model of the Tezos rich-preview bot: link detection        *)
(* (NFTDetectionService), the two indexer clients with their rate gates    *)
(* (ObjktApiService, TzktApiService), the normaliser (determineSaleType,   *)
(* buildObjktNFT, buildCollectionFromData) and the orchestrator            *)
(* (NFTService.processMessage / processCollections).                       *)
(*                                                                         *)
(* Text is a sequence of atoms.  An atom is a run of characters that the   *)
(* patterns never split: a host ("objkt.com"), a literal path chunk        *)
(* ("/asset/"), a single character ("a", "1", "/", "?", " "), the address  *)
(* prefix "KT1", or a run of 32/33 address characters ("B33": 33 base58    *)
(* characters, "Z33": 33 alphanumeric characters one of which is "0").     *)
(* A string value of the program (token id, contract address, url) is the  *)
(* sequence of atoms it consists of; the empty sequence stands for both    *)
(* undefined and "" (the code only tests such values for truthiness).      *)
(***************************************************************************)
EXTENDS Integers, Sequences, FiniteSets, TLC

Undef == <<>>

(* ---------------------------------------------------------------------- *)
(* Atoms and character classes                                             *)
(* ---------------------------------------------------------------------- *)

SchemeAtoms == {"https://", "http://"}

HostAtoms ==
    {"objkt.com", "fxhash.xyz", "teia.art", "versum.xyz", "bootloader.art", "editart.xyz"}

PathAtoms ==
    {"/asset/", "/tokens/", "/objkt/", "/gentk/", "/token/", "/token-detail/",
     "/collections/", "/projects/", "/generative/", "/project/", "/generator/",
     "/series/"}

DigitAtoms == {"1", "2"}

\* number of characters an atom stands for, where the patterns count them
AtomLen(a) ==
    CASE a \in {"B33", "Z33", "H33"} -> 33
      [] a \in {"B32", "Z32", "H32"} -> 32
      [] a \in {"KT1", "kt1"} -> 3
      [] a = "hicetnunc" -> 9
      [] a = "hicetnun" -> 8
      [] OTHER -> 1

\* [1-9A-HJ-NP-Za-km-z]: base58 characters only
IsBase58(a) == a \in {"B33", "B32", "H33", "H32", "KT1", "a", "b", "1", "2"}

\* [a-zA-Z0-9]
IsAlnum(a) ==
    a \in {"B33", "B32", "H33", "H32", "Z33", "Z32", "KT1", "kt1", "a", "b", "1", "2",
           "hicetnunc", "hicetnun"}

\* \d
IsDigit(a) == a \in DigitAtoms

\* [^\/\?]
NotSlashQ(a) == a \notin ({"/", "?"} \cup PathAtoms \cup SchemeAtoms)

\* [^\s]
NotSpace(a) == a # " "

StartsWithSlash(a) == a \in ({"/"} \cup PathAtoms)

\* the i flag: an atom compared with a literal of a pattern
Lower(a) == IF a = "KT1" THEN "kt1" ELSE IF a = "OBJKT.COM" THEN "objkt.com" ELSE a

\* the atom left when the last character of a one-atom run is given back
ChopAtom(a) ==
    CASE a = "B33" -> <<"B32">>
      [] a = "Z33" -> <<"Z32">>
      [] a = "H33" -> <<"H32">>
      [] a = "hicetnunc" -> <<"hicetnun">>
      [] OTHER -> <<>>

RECURSIVE SumLen(_)
SumLen(s) == IF s = <<>> THEN 0 ELSE AtomLen(Head(s)) + SumLen(Tail(s))

\* /^KT1[1-9A-HJ-NP-Za-km-z]{33}$/.test(address)
isKTAddress(address) ==
    /\ Len(address) >= 2
    /\ address[1] = "KT1"
    /\ SumLen(Tail(address)) = 33
    /\ \A i \in 2..Len(address) : IsBase58(address[i])

\* MARKETPLACE_CONTRACTS.hicetnunc
HEN_CONTRACT == <<"KT1", "H33">>

\* fx(hash) v2 contract of fetchFxHashNFT
FXHASH_CONTRACT == <<"KT1", "B33">>

\* `path in MARKETPLACE_CONTRACTS`
InMarketplaceContracts(path) == path = <<"hicetnunc">>

(* ---------------------------------------------------------------------- *)
(* Pattern matching (String.prototype.match without the g flag)            *)
(* ---------------------------------------------------------------------- *)

\* a match: match[0] is url, match[1] and match[2] are g1 and g2
NoMatch == [found |-> FALSE, url |-> Undef, g1 |-> Undef, g2 |-> Undef]

Found(u, a, b) == [found |-> TRUE, url |-> u, g1 |-> a, g2 |-> b]

\* the character classes the patterns repeat: \d, [^\/\?], [^\s]
InClass(C, a) ==
    CASE C = "IsDigit"   -> IsDigit(a)
      [] C = "NotSlashQ" -> NotSlashQ(a)
      [] C = "NotSpace"  -> NotSpace(a)

\* last index of the longest run of atoms of class C that starts at p
\* (p - 1 when the run is empty)
RunEnd(t, p, C) ==
    CHOOSE e \in (p - 1)..Len(t) :
        /\ \A i \in p..e : InClass(C, t[i])
        /\ (e = Len(t) \/ ~InClass(C, t[e + 1]))

\* (?:\?[^\s]*)? : index of the last atom consumed, given the last one so far
OptQuery(t, e) ==
    IF e + 1 <= Len(t) /\ t[e + 1] = "?" THEN RunEnd(t, e + 2, "NotSpace") ELSE e

\* (?:\/[^\s]*)?
OptRest(t, e) ==
    IF e + 1 <= Len(t) /\ StartsWithSlash(t[e + 1]) THEN RunEnd(t, e + 2, "NotSpace") ELSE e

\* (?:https?:\/\/)?(?:www\.)? : index of the first atom after the prefix
AfterPrefix(t, s) ==
    LET p1 == IF s <= Len(t) /\ t[s] \in SchemeAtoms THEN s + 1 ELSE s
    IN  IF p1 <= Len(t) /\ Lower(t[p1]) = "www." THEN p1 + 1 ELSE p1

\* KT1[a-zA-Z0-9]{33} under the i flag, starting at p: index of its last atom,
\* or 0 when it does not match there
KTLooseEnd(t, p) ==
    IF p <= Len(t) /\ Lower(t[p]) = "kt1"
    THEN LET ends == {e \in (p + 1)..Len(t) :
                         /\ \A i \in (p + 1)..e : IsAlnum(t[i])
                         /\ SumLen(SubSeq(t, p + 1, e)) = 33}
         IN  IF ends = {} THEN 0 ELSE CHOOSE e \in ends : TRUE
    ELSE 0

\* One attempt of pattern pat at start position s.
\*   pat.host, pat.lit : the two literal chunks after the optional prefix
\*   pat.tail          : the shape of what follows the literal
TailMatch(pat, t, s, p) ==
    CASE pat.tail = "cid" ->
            \* ([^\/\?]+)\/(\d+)(?:\?[^\s]*)?
            LET e1 == RunEnd(t, p, "NotSlashQ")
                e2 == RunEnd(t, e1 + 2, "IsDigit")
            IN  IF e1 >= p /\ e1 + 1 <= Len(t) /\ t[e1 + 1] = "/" /\ e2 >= e1 + 2
                THEN Found(SubSeq(t, s, OptQuery(t, e2)), SubSeq(t, p, e1), SubSeq(t, e1 + 2, e2))
                ELSE NoMatch
      [] pat.tail = "id" ->
            \* (\d+)(?:\?[^\s]*)?
            LET e1 == RunEnd(t, p, "IsDigit")
            IN  IF e1 >= p
                THEN Found(SubSeq(t, s, OptQuery(t, e1)), SubSeq(t, p, e1), Undef)
                ELSE NoMatch
      [] pat.tail = "ktid" ->
            \* (KT1[a-zA-Z0-9]{33})\/(\d+)(?:\?[^\s]*)?
            LET e1 == KTLooseEnd(t, p)
                e2 == RunEnd(t, e1 + 2, "IsDigit")
            IN  IF e1 > 0 /\ e1 + 1 <= Len(t) /\ t[e1 + 1] = "/" /\ e2 >= e1 + 2
                THEN Found(SubSeq(t, s, OptQuery(t, e2)), SubSeq(t, p, e1), SubSeq(t, e1 + 2, e2))
                ELSE NoMatch
      [] pat.tail = "pathproject" ->
            \* ([^\/\?]+)\/projects\/(\d+)(?:\?[^\s]*)?
            LET e1 == RunEnd(t, p, "NotSlashQ")
                e2 == RunEnd(t, e1 + 2, "IsDigit")
            IN  IF e1 >= p /\ e1 + 1 <= Len(t) /\ t[e1 + 1] = "/projects/" /\ e2 >= e1 + 2
                THEN Found(SubSeq(t, s, OptQuery(t, e2)), SubSeq(t, p, e1), SubSeq(t, e1 + 2, e2))
                ELSE NoMatch
      [] pat.tail = "path" ->
            \* ([^\/\?]+)(?!\/projects\/)(?:\?[^\s]*)?
            \* the greedy run gives back its last character when the
            \* lookahead fails after the whole run
            LET e1 == RunEnd(t, p, "NotSlashQ")
                blocked == e1 + 1 <= Len(t) /\ t[e1 + 1] = "/projects/"
                shorter == SubSeq(t, p, e1 - 1) \o ChopAtom(t[e1])
            IN  IF e1 < p THEN NoMatch
                ELSE IF ~blocked
                THEN Found(SubSeq(t, s, OptQuery(t, e1)), SubSeq(t, p, e1), Undef)
                ELSE IF shorter # <<>>
                THEN Found(SubSeq(t, s, p - 1) \o shorter, shorter, Undef)
                ELSE NoMatch
      [] pat.tail = "slug" ->
            \* ([^\/\?]+)(?:\?[^\s]*)?
            LET e1 == RunEnd(t, p, "NotSlashQ")
            IN  IF e1 >= p
                THEN Found(SubSeq(t, s, OptQuery(t, e1)), SubSeq(t, p, e1), Undef)
                ELSE NoMatch
      [] pat.tail = "ktrest" ->
            \* (KT1[a-zA-Z0-9]{33})(?:\/[^\s]*)?
            LET e1 == KTLooseEnd(t, p)
            IN  IF e1 > 0
                THEN Found(SubSeq(t, s, OptRest(t, e1)), SubSeq(t, p, e1), Undef)
                ELSE NoMatch

MatchAt(pat, t, s) ==
    LET p == AfterPrefix(t, s)
    IN  IF p + 1 <= Len(t) /\ Lower(t[p]) = pat.host /\ Lower(t[p + 1]) = pat.lit
        THEN TailMatch(pat, t, s, p + 2)
        ELSE NoMatch

\* the match of the last position at which the pattern matches
RegexMatchRightmost(pat, t) ==
    LET starts == {s \in 1..Len(t) : MatchAt(pat, t, s).found}
    IN  IF starts = {} THEN NoMatch
        ELSE MatchAt(pat, t, CHOOSE s \in starts : \A s2 \in starts : s >= s2)

\* content.match(pattern): the leftmost match, or NoMatch
RegexMatch(pat, t) ==
    LET starts == {s \in 1..Len(t) : MatchAt(pat, t, s).found}
    IN  IF starts = {} THEN NoMatch
        ELSE MatchAt(pat, t, CHOOSE s \in starts : \A s2 \in starts : s <= s2)

(* ---------------------------------------------------------------------- *)
(* NFTDetectionService                                                     *)
(* ---------------------------------------------------------------------- *)

Pat(k, n, h, l, tl) == [key |-> k, name |-> n, host |-> h, lit |-> l, tail |-> tl]

\* Object.entries(MARKETPLACE_PATTERNS), patterns in declaration order
MARKETPLACE_PATTERNS ==
    << Pat("objkt", "OBJKT", "objkt.com", "/asset/", "cid"),
       Pat("objkt", "OBJKT", "objkt.com", "/tokens/", "cid"),
       Pat("objkt", "OBJKT", "objkt.com", "/objkt/", "id"),
       Pat("fxhash", "fxhash", "fxhash.xyz", "/gentk/", "id"),
       Pat("teia", "Teia", "teia.art", "/objkt/", "id"),
       Pat("versum", "Versum", "versum.xyz", "/token/", "cid"),
       Pat("bootloader", "Bootloader", "bootloader.art", "/token/", "id"),
       Pat("editart", "EditArt", "editart.xyz", "/token-detail/", "ktid") >>

\* Object.entries(COLLECTION_PATTERNS), patterns in declaration order
COLLECTION_PATTERNS ==
    << Pat("objkt", "OBJKT", "objkt.com", "/collections/", "pathproject"),
       Pat("objkt", "OBJKT", "objkt.com", "/collections/", "path"),
       Pat("fxhash", "fxhash", "fxhash.xyz", "/generative/", "id"),
       Pat("fxhash", "fxhash", "fxhash.xyz", "/project/", "slug"),
       Pat("bootloader", "Bootloader", "bootloader.art", "/generator/", "id"),
       Pat("editart", "EditArt", "editart.xyz", "/series/", "ktrest") >>

\* the switch of detectNFTLinks: the MarketplaceMatch built from a match
NFTMatchOf(pat, m) ==
    LET twoGroups == pat.key \in {"versum", "editart"} \/ (pat.key = "objkt" /\ m.g2 # Undef)
    IN  [marketplace     |-> pat.name,
         tokenId         |-> IF twoGroups THEN m.g2 ELSE m.g1,
         contractAddress |-> IF twoGroups THEN m.g1 ELSE Undef,
         url             |-> m.url]

\* the if-chain with an OBJKT branch that reads the first group only
CollectionMatchOfContractOnly(pat, m) ==
    [marketplace     |-> pat.name,
     contractAddress |-> IF pat.key \in {"objkt", "editart"} THEN m.g1 ELSE Undef,
     projectId       |-> IF pat.key \in {"fxhash", "bootloader"} THEN m.g1 ELSE Undef,
     url             |-> m.url]

\* the if-chain of detectCollectionLinks
CollectionMatchOf(pat, m) ==
    [marketplace     |-> pat.name,
     contractAddress |-> IF pat.key \in {"objkt", "editart"} THEN m.g1 ELSE Undef,
     projectId       |-> CASE pat.key = "objkt" -> m.g2
                           [] pat.key \in {"fxhash", "bootloader"} -> m.g1
                           [] OTHER -> Undef,
     url             |-> m.url]

RECURSIVE DetectFrom(_, _, _)
\* the two nested loops: one push per pattern that matches
DetectFrom(pats, content, isNFT) ==
    IF pats = <<>> THEN <<>>
    ELSE LET pat == Head(pats)
             m   == RegexMatch(pat, content)
             one == IF ~m.found THEN <<>>
                    ELSE IF isNFT
                    THEN (IF NFTMatchOf(pat, m).tokenId # Undef
                          THEN <<NFTMatchOf(pat, m)>> ELSE <<>>)
                    ELSE <<CollectionMatchOf(pat, m)>>
         IN  one \o DetectFrom(Tail(pats), content, isNFT)

detectNFTLinks(content) == DetectFrom(MARKETPLACE_PATTERNS, content, TRUE)

detectCollectionLinks(content) == DetectFrom(COLLECTION_PATTERNS, content, FALSE)

(* ---------------------------------------------------------------------- *)
(* Message texts                                                           *)
(* ---------------------------------------------------------------------- *)

\* a message of several words
Join(a, b) == a \o <<" ">> \o b

\* single links of every documented shape, with and without scheme and
\* query, and links whose contract part is a path rather than an address
NFTWords ==
    { <<"https://", "objkt.com", "/asset/", "KT1", "B33", "/", "1">>,
      <<"objkt.com", "/asset/", "a", "b", "/", "1">>,
      <<"objkt.com", "/tokens/", "hicetnunc", "/", "2">>,
      <<"objkt.com", "/objkt/", "1">>,
      <<"fxhash.xyz", "/gentk/", "1">>,
      <<"teia.art", "/objkt/", "2", "?", "a">>,
      <<"versum.xyz", "/token/", "KT1", "B33", "/", "1">>,
      <<"versum.xyz", "/token/", "a", "/", "1">>,
      <<"bootloader.art", "/token/", "1">>,
      <<"editart.xyz", "/token-detail/", "KT1", "B33", "/", "2">>,
      <<"editart.xyz", "/token-detail/", "kt1", "B33", "/", "2">> }

CollectionWords ==
    { <<"objkt.com", "/collections/", "KT1", "B33">>,
      <<"objkt.com", "/collections/", "a", "b">>,
      <<"objkt.com", "/collections/", "hicetnunc">>,
      <<"objkt.com", "/collections/", "a", "b", "/projects/", "1">>,
      <<"fxhash.xyz", "/generative/", "1">>,
      <<"fxhash.xyz", "/project/", "a">>,
      <<"bootloader.art", "/generator/", "2">>,
      <<"editart.xyz", "/series/", "KT1", "B33">>,
      <<"editart.xyz", "/series/", "KT1", "Z33">> }

\* texts without any link
PlainWords == { <<>>, <<"a", "b">>, <<"objkt.com", "/", "a">>, <<"teia.art", "/objkt/", "a">> }

\* messages with several links: two marketplaces, the same token through
\* two marketplaces, the same pattern twice, an NFT and a collection
MixedMessages ==
    { Join(<<"objkt.com", "/asset/", "KT1", "B33", "/", "1">>,
           <<"versum.xyz", "/token/", "KT1", "B33", "/", "1">>),
      Join(<<"editart.xyz", "/token-detail/", "KT1", "B33", "/", "1">>,
           <<"objkt.com", "/tokens/", "KT1", "B33", "/", "1">>),
      Join(<<"objkt.com", "/asset/", "a", "/", "1">>,
           <<"objkt.com", "/asset/", "KT1", "B33", "/", "2">>),
      Join(<<"teia.art", "/objkt/", "1">>, <<"fxhash.xyz", "/gentk/", "2">>),
      Join(<<"objkt.com", "/collections/", "KT1", "B33">>,
           <<"editart.xyz", "/series/", "KT1", "H33">>),
      Join(<<"fxhash.xyz", "/generative/", "1">>, <<"bootloader.art", "/generator/", "2">>),
      Join(<<"bootloader.art", "/token/", "1">>, <<"fxhash.xyz", "/project/", "a">>),
      Join(Join(<<"objkt.com", "/asset/", "a", "/", "1">>, <<"teia.art", "/objkt/", "2">>),
           <<"objkt.com", "/asset/", "KT1", "B33", "/", "2">>),
      Join(<<"fxhash.xyz", "/generative/", "1">>, <<"fxhash.xyz", "/generative/", "2">>),
      Join(Join(<<"editart.xyz", "/series/", "KT1", "H33">>,
                <<"fxhash.xyz", "/generative/", "1">>),
           <<"objkt.com", "/collections/", "KT1", "B33">>) }

\* the texts an entry point is called with
Messages == NFTWords \cup CollectionWords \cup PlainWords \cup MixedMessages

(* ---------------------------------------------------------------------- *)
(* Bounds and configuration                                                *)
(* ---------------------------------------------------------------------- *)

\* the clock stops advancing after this many ticks
MaxTicks == 6

\* the 60000 of `const minInterval = 60000 / config.api.rateLimit`
MinuteMs == 60000

\* config.api.rateLimit: the default "60", and a configured API_RATE_LIMIT
ConfiguredRates == {60, 120}

\* the clock advances in steps of half the shortest configured interval
TickMs == MinuteMs \div (2 * 120)

\* Date.now() when the process starts: an epoch time, so that the first
\* call to any endpoint is a full interval after the map default 0
StartTime == MinuteMs

VARIABLES
    rateLimit,        \* config.api.rateLimit
    now,              \* Date.now()
    objktRateLimit,   \* ObjktApiService.rateLimit : endpoint -> time of last accepted call
    tzktRateLimit,    \* TzktApiService.rateLimit
    lastAccepted,     \* history: [api, endpoint] -> time of the last accepted check
    pc,               \* "idle", "awaiting" (Promise.all/allSettled pending), "returned"
    entry,            \* "none", "processMessage", "processCollections"
    content,          \* the text the entry point was called with
    matches,          \* result of the detect call
    tasks,            \* one per match: the promise of fetchNFTData / the mapped async arrow
    result,           \* what the entry point's promise settled with
    errors,           \* the errors array of the entry point when it returned
    requests,         \* history: outbound requests of this invocation
    checks,           \* history: rate gate checks of the latest step
    payload,          \* normaliser alone: the token-detail payload
    nft,              \* normaliser alone: what buildObjktNFT made of it
    referral,         \* config.referral.address ("" is <<>>)
    author,           \* message handler: "user" or "bot" (message.author.bot)
    nftResult,        \* message handler: what processMessage returned
    collectionsResult, \* message handler: collectionResult, what processCollections returned
    botPc,            \* message handler: "off", "received", "nfts", "collections",
                      \* "processed", "loading", "failed" (the inner catch),
                      \* "caught" (the outer catch), "done"
    reply,            \* message handler: the bot's messages in the channel, [kind, embeds]
    chat,             \* history: the chat-platform calls of the handler, [call, kind, ok]
    aborted           \* history kept by the fair specification of the entry points:
                      \* the tasks and kinds of the requests AbortSignal.timeout aborted

vars ==
    <<rateLimit, now, objktRateLimit, tzktRateLimit, lastAccepted, pc, entry, content,
      matches, tasks, result, errors, requests, checks, payload, nft,
      referral, author, nftResult, collectionsResult, botPc, reply, chat, aborted>>

\* the variables only the normaliser's own specification changes
normVars == <<payload, nft>>

\* the variables only the message handler's specification changes
botVars == <<referral, author, nftResult, collectionsResult, botPc, reply, chat>>

\* the variables of NFTService and the API services
serviceVars ==
    <<rateLimit, now, objktRateLimit, tzktRateLimit, lastAccepted, pc, entry,
      matches, tasks, result, errors, requests, checks, aborted>>

(* ---------------------------------------------------------------------- *)
(* Rate gate                                                               *)
(* ---------------------------------------------------------------------- *)

EmptyMap == [k \in {} |-> 0]

\* this.rateLimit.get(endpoint) || 0
MapGet(m, k) == IF k \in DOMAIN m THEN m[k] ELSE 0

\* this.rateLimit.set(endpoint, now)
MapSet(m, k, v) == [x \in (DOMAIN m) \cup {k} |-> IF x = k THEN v ELSE m[x]]

\* a gate that stamps the endpoint on every call, accepted or not
checkRateLimitStampingEveryCall(m, endpoint) ==
    LET lastCall == MapGet(m, endpoint)
    IN  [ok |-> ~((now - lastCall) * rateLimit < MinuteMs), map |-> MapSet(m, endpoint, now)]

\* checkRateLimit (identical in both services): whether the call is accepted,
\* and the map afterwards.  now - lastCall < 60000 / rate, without the
\* fraction: (now - lastCall) * rate < 60000
checkRateLimit(m, endpoint) ==
    LET lastCall == MapGet(m, endpoint)
    IN  IF (now - lastCall) * rateLimit < MinuteMs
        THEN [ok |-> FALSE, map |-> m]
        ELSE [ok |-> TRUE, map |-> MapSet(m, endpoint, now)]

\* The part of the state a task's step reads and writes.
\*   objkt, tzkt : the two rate maps
\*   acc         : history of accepted checks
\*   reqs, chks  : requests issued and gate checks made, appended in order
World == [objkt |-> objktRateLimit, tzkt |-> tzktRateLimit, acc |-> lastAccepted,
          reqs |-> requests, chks |-> <<>>]

NoGate == [checked |-> FALSE, accepted |-> FALSE, endpoint |-> <<>>]

\* a call of checkRateLimit by service api: the world afterwards and the verdict
Gate(w, api, endpoint) ==
    LET m == IF api = "objkt" THEN w.objkt ELSE w.tzkt
        r == checkRateLimit(m, endpoint)
        c == [api |-> api, endpoint |-> endpoint, at |-> now,
              prev |-> MapGet(w.acc, <<api, endpoint>>), accepted |-> r.ok]
    IN  [ok |-> r.ok,
         gate |-> [checked |-> TRUE, accepted |-> r.ok, endpoint |-> endpoint],
         w  |-> [w EXCEPT !.objkt = IF api = "objkt" THEN r.map ELSE @,
                          !.tzkt  = IF api = "tzkt" THEN r.map ELSE @,
                          !.acc   = IF r.ok THEN MapSet(@, <<api, endpoint>>, now) ELSE @,
                          !.chks  = Append(@, c)]]

\* fetch(...): an outbound request leaves the process
\*   op       : "token", "resolve", "collection", "project", "gallery", "tzkt"
\*   contract : the contract, path or platform argument it carries
\*   gate     : the gate check its API method made before issuing it
\*   outcome  : "pending" until the upstream answers, then "ok" or "failed"
\*   answered : history, 0 until the upstream answers, then the rank of the
\*              answer among the answers of this invocation
Issue(w, i, api, op, contract, id, gate) ==
    [w EXCEPT !.reqs = Append(@, [task |-> i, api |-> api, op |-> op,
                                  contract |-> contract, id |-> id, gate |-> gate,
                                  outcome |-> "pending", answered |-> 0])]

\* the request task i awaits has been answered: anything but a well-formed,
\* non-empty answer is a failed request
Answered(reqs, i, resp) ==
    [k \in 1..Len(reqs) |->
        IF reqs[k].task = i /\ reqs[k].outcome = "pending"
        THEN [reqs[k] EXCEPT
                 !.outcome  = IF resp.kind = "ok" THEN "ok" ELSE "failed",
                 !.answered = 1 + Cardinality({j \in 1..Len(reqs) : reqs[j].answered > 0})]
        ELSE reqs[k]]

(* ---------------------------------------------------------------------- *)
(* RecordNormalizer                                                        *)
(*                                                                         *)
(* An optional value is a sequence of length 0 (undefined, null) or 1.     *)
(* An upstream object is a record that may lack any field: Field reads a   *)
(* property the way JavaScript does.  A null array element is NULL.        *)
(* Descriptive text fields (name, description, logo, ...) are left out.    *)
(* ---------------------------------------------------------------------- *)

Field(obj, f) == IF f \in DOMAIN obj THEN obj[f] ELSE <<>>

NULL == [null |-> TRUE]

IsNull(obj) == "null" \in DOMAIN obj

\* JavaScript truthiness of an optional number
Truthy(x) == x # <<>> /\ x[1] # 0

\* the amount copied without the division
DivMillionUndivided(x) ==
    IF x = <<>> THEN [nan |-> TRUE, num |-> 0, den |-> 1]
    ELSE [nan |-> FALSE, num |-> x[1], den |-> 1]

\* x / 1000000 and parseFloat(x) / 1000000: a decimal kept as a fraction;
\* undefined divides to NaN
DivMillion(x) ==
    IF x = <<>> THEN [nan |-> TRUE, num |-> 0, den |-> 1]
    ELSE [nan |-> FALSE, num |-> x[1], den |-> 1000000]

\* the price object; its symbol is the tez sign
XTZ(amount) == <<[amount |-> amount, currency |-> "XTZ", symbol |-> "tez"]>>

\* the first element of an upstream list, which the code casts and reads
First(list) == list[1]

\* reading a property of null throws a TypeError
determineSaleTypeThrows(metadata) ==
    /\ Field(metadata, "open_edition_active") = <<>>
    /\ \/ /\ Field(metadata, "listings_active") # <<>>
          /\ IsNull(First(metadata.listings_active))
       \/ /\ Field(metadata, "listings_active") = <<>>
          /\ Field(metadata, "english_auctions_active") # <<>>
          /\ IsNull(First(metadata.english_auctions_active))
       \/ /\ Field(metadata, "listings_active") = <<>>
          /\ Field(metadata, "english_auctions_active") = <<>>
          /\ Field(metadata, "dutch_auctions_active") # <<>>
          /\ IsNull(First(metadata.dutch_auctions_active))

\* the open-edition branch with an edition built from the supply as in the
\* fallback branch
OpenEditionSaleWithEdition(metadata) ==
    LET oe     == Field(metadata, "open_edition_active")
        supply == Field(metadata, "supply")
    IN  [price    |-> XTZ(DivMillion(Field(oe[1], "price"))),
         edition  |-> IF Truthy(supply)
                      THEN <<[current |-> <<1>>, total |-> supply[1] ]>>
                      ELSE <<>>,
         saleType |-> "open_edition",
         openEditionInfo |->
             <<[maxPerWallet |-> Field(oe[1], "max_per_wallet"),
                endTime      |-> Field(oe[1], "end_time"),
                startTime    |-> Field(oe[1], "start_time"),
                mintedCount  |-> supply]>>]

\* if (metadata.open_edition_active) return {...}
OpenEditionSale(metadata) ==
    LET oe     == Field(metadata, "open_edition_active")
        supply == Field(metadata, "supply")
    IN  [price    |-> XTZ(DivMillion(Field(oe[1], "price"))),
         edition  |-> <<>>,
         saleType |-> "open_edition",
         openEditionInfo |->
             <<[maxPerWallet |-> Field(oe[1], "max_per_wallet"),
                endTime      |-> Field(oe[1], "end_time"),
                startTime    |-> Field(oe[1], "start_time"),
                mintedCount  |-> supply]>>]

\* the return of the listings branch
ListingSale(metadata) ==
    LET listing == First(metadata.listings_active)
        supply  == Field(metadata, "supply")
    IN  [price    |-> XTZ(DivMillion(Field(listing, "price"))),
         edition  |-> <<[current |-> Field(listing, "amount_left"),
                         total   |-> IF Truthy(supply) THEN supply[1] ELSE 0]>>,
         saleType |-> "listing",
         openEditionInfo |-> <<>>]

\* the return of the English-auction branch
EnglishAuctionSale(metadata) ==
    LET auction == First(metadata.english_auctions_active)
        supply  == Field(metadata, "supply")
    IN  [price    |-> XTZ(DivMillion(IF Truthy(Field(auction, "current_price"))
                                     THEN Field(auction, "current_price")
                                     ELSE Field(auction, "reserve"))),
         edition  |-> <<[current |-> <<1>>,
                         total   |-> IF Truthy(supply) THEN supply[1] ELSE 1]>>,
         saleType |-> "english_auction",
         openEditionInfo |-> <<>>]

\* the return of the Dutch-auction branch
DutchAuctionSale(metadata) ==
    LET auction == First(metadata.dutch_auctions_active)
        supply  == Field(metadata, "supply")
    IN  [price    |-> XTZ(DivMillion(Field(auction, "current_price"))),
         edition  |-> <<[current |-> <<1>>,
                         total   |-> IF Truthy(supply) THEN supply[1] ELSE 1]>>,
         saleType |-> "dutch_auction",
         openEditionInfo |-> <<>>]

\* the fallback return: no active sale
NoSale(metadata) ==
    LET supply == Field(metadata, "supply")
    IN  [price    |-> <<>>,
         edition  |-> IF Truthy(supply)
                      THEN <<[current |-> <<1>>, total |-> supply[1] ]>>
                      ELSE <<>>,
         saleType |-> "none",
         openEditionInfo |-> <<>>]

\* the chain of tests with the two auction kinds in the other order
determineSaleTypeDutchFirst(metadata) ==
    IF Field(metadata, "open_edition_active") # <<>> THEN OpenEditionSale(metadata)
    ELSE IF Field(metadata, "listings_active") # <<>> THEN ListingSale(metadata)
    ELSE IF Field(metadata, "dutch_auctions_active") # <<>> THEN DutchAuctionSale(metadata)
    ELSE IF Field(metadata, "english_auctions_active") # <<>> THEN EnglishAuctionSale(metadata)
    ELSE NoSale(metadata)

determineSaleType(metadata) ==
    IF Field(metadata, "open_edition_active") # <<>> THEN OpenEditionSale(metadata)
    ELSE IF Field(metadata, "listings_active") # <<>> THEN ListingSale(metadata)
    ELSE IF Field(metadata, "english_auctions_active") # <<>> THEN EnglishAuctionSale(metadata)
    ELSE IF Field(metadata, "dutch_auctions_active") # <<>> THEN DutchAuctionSale(metadata)
    ELSE NoSale(metadata)

\* typedMetadata.fa ? {...} : undefined, the monetary and count fields
NestedCollection(fa) ==
    IF fa = <<>> THEN <<>>
    ELSE <<[floorPrice  |-> IF Truthy(Field(fa[1], "floor_price"))
                            THEN <<DivMillion(Field(fa[1], "floor_price"))>> ELSE <<>>,
            items       |-> Field(fa[1], "items"),
            volume24h   |-> IF Truthy(Field(fa[1], "volume_24h"))
                            THEN <<DivMillion(Field(fa[1], "volume_24h"))>> ELSE <<>>,
            volumeTotal |-> IF Truthy(Field(fa[1], "volume_total"))
                            THEN <<DivMillion(Field(fa[1], "volume_total"))>> ELSE <<>>]>>

\* artifact_uri.startsWith on a value that is not a string
buildObjktNFTThrows(metadata) ==
    \/ determineSaleTypeThrows(metadata)
    \/ Field(metadata, "artifact_uri") = <<"#notastring">>

buildObjktNFT(metadata, match) ==
    LET saleInfo == determineSaleType(metadata)
    IN  [id              |-> match.tokenId,
         price           |-> saleInfo.price,
         edition         |-> saleInfo.edition,
         saleType        |-> <<saleInfo.saleType>>,
         openEditionInfo |-> saleInfo.openEditionInfo,
         collection      |-> NestedCollection(Field(metadata, "fa")),
         marketplace     |-> [name |-> match.marketplace, url |-> match.url]]

\* token.token.metadata / token.account.address on an object without them
fetchFromTzktThrows(token) ==
    Field(token, "token") = <<>> \/ Field(token, "account") = <<>>

\* the record fetchFromTzkt builds: no price, edition, saleType or collection
BuildTzktNFT(tokenId, marketplace, url) ==
    [id              |-> tokenId,
     price           |-> <<>>,
     edition         |-> <<>>,
     saleType        |-> <<>>,
     openEditionInfo |-> <<>>,
     collection      |-> <<>>,
     marketplace     |-> [name |-> marketplace, url |-> url]]

\* a || b for strings
OrElse(a, b) == IF a # <<>> THEN a ELSE b

buildCollectionFromData(data, match) ==
    [contract    |-> OrElse(Field(data, "contract"),
                            OrElse(match.contractAddress, <<"Unknown">>)),
     floorPrice  |-> IF Truthy(Field(data, "floor_price"))
                     THEN <<DivMillion(Field(data, "floor_price"))>> ELSE <<>>,
     items       |-> IF Truthy(Field(data, "items")) THEN data.items ELSE <<>>,
     editions    |-> IF Truthy(Field(data, "editions")) THEN data.editions ELSE <<>>,
     owners      |-> IF Truthy(Field(data, "owners")) THEN data.owners ELSE <<>>,
     volume24h   |-> IF Truthy(Field(data, "volume_24h"))
                     THEN <<DivMillion(Field(data, "volume_24h"))>> ELSE <<>>,
     volumeTotal |-> IF Truthy(Field(data, "volume_total"))
                     THEN <<DivMillion(Field(data, "volume_total"))>> ELSE <<>>,
     marketplace |-> [name |-> match.marketplace, url |-> match.url]]

(* ---------------------------------------------------------------------- *)
(* Upstream responses and the API methods' handling of them                *)
(* ---------------------------------------------------------------------- *)

\* ApiResponse<T>, and a thrown exception / rejected promise ("threw")
Ok(d) == [status |-> "ok", data |-> <<d>>, error |-> <<>>]

Fail(msg) == [status |-> "fail", data |-> <<>>, error |-> <<msg>>]

Threw == [status |-> "threw", data |-> <<>>, error |-> <<>>]

Pending == [status |-> "pending", data |-> <<>>, error |-> <<>>]

\* a block without its catch: the exception goes on to the caller
Uncaught(o, fallback) == o

\* try { ... } catch (error) { return fallback }
TryCatch(o, fallback) == IF o.status = "threw" THEN fallback ELSE o

\* What the upstream does with a request:
\*   "ok"        a well-formed, non-empty answer carrying data
\*   "empty"     a well-formed answer with an empty list
\*   "http"      a status outside the success range (the client throws)
\*   "timeout"   the 10 s abort or a transport error (fetch rejects)
\*   "malformed" a body without the object the method reads (JSON null)
Resp(k, d) == [kind |-> k, data |-> d]

FailureKinds == {"empty", "http", "timeout", "malformed"}

\* token-detail answers: the listing of the spec's scenario, a token with
\* no sale and no supply, one whose first listing is null
TokenPayloads ==
    { [supply |-> <<10>>, listings_active |-> <<[price |-> <<5000000>>, amount_left |-> <<3>>]>>],
      [artifact_uri |-> <<"ipfs">>],
      [listings_active |-> <<NULL>>] }

\* contracts the path lookup answers with: an address, and a value that is none
ResolvedContracts == { [contract |-> <<"KT1", "H33">>], [contract |-> <<"b">>] }

CollectionPayloads ==
    { [contract |-> <<"KT1", "B33">>, floor_price |-> <<2000000>>, items |-> <<5>>],
      [floor_price |-> <<0>>] }

\* gallery answers: with a sampled token, and without any
GalleryPayloads ==
    { [items |-> <<7>>, editions |-> <<9>>, owners |-> <<4>>, floor_price |-> <<3000000>>,
       volume_24h |-> <<1000000>>,
       tokens |-> <<[token |-> [fa_contract |-> <<"KT1", "H33">>]],
                    [token |-> [fa_contract |-> <<"KT1", "B33">>]]>>],
      [items |-> <<8>>, tokens |-> <<>>] }

\* chain-indexer answers: a token, and an object that is not one
TzktPayloads ==
    { [token |-> <<[metadata |-> <<>>]>>, account |-> <<[address |-> <<"tz1">>]>>],
      [balance |-> <<1>>] }

OkPayloads(op) ==
    CASE op = "token"      -> TokenPayloads
      [] op = "resolve"    -> ResolvedContracts
      [] op = "collection" -> CollectionPayloads
      [] op = "project"    -> CollectionPayloads
      [] op = "gallery"    -> GalleryPayloads
      [] op = "tzkt"       -> TzktPayloads
      [] OTHER             -> {}

\* the answers a request of kind op can get (none when nothing is in flight)
Responses(op) ==
    IF OkPayloads(op) = {} THEN {}
    ELSE {Resp(k, [nothing |-> TRUE]) : k \in FailureKinds}
         \cup {Resp("ok", d) : d \in OkPayloads(op)}

\* makeGraphQLRequest / fetch + response.ok + response.json(): the value the
\* awaiting method continues with, or a throw
Transport(resp) == IF resp.kind \in {"http", "timeout"} THEN Threw ELSE Ok(resp)

\* getTokenMetadata after its request was answered
getTokenMetadataResult(resp) ==
    TryCatch(IF Transport(resp).status = "threw" THEN Threw
             ELSE IF resp.kind = "ok" THEN Ok(resp.data)
             ELSE Fail("Token not found"),
             Fail("OBJKT API error"))

\* a path lookup that answers with a built-in contract when its request failed
resolveContractFromPathResultDefaulting(resp) ==
    TryCatch(IF Transport(resp).status = "threw" \/ resp.kind = "malformed" THEN Threw
             ELSE IF resp.kind = "ok" THEN Ok(resp.data.contract)
             ELSE Ok(HEN_CONTRACT),
             Ok(HEN_CONTRACT))

\* resolveContractFromPath after its request was answered
resolveContractFromPathResult(resp) ==
    TryCatch(IF Transport(resp).status = "threw" \/ resp.kind = "malformed" THEN Threw
             ELSE IF resp.kind = "ok" THEN Ok(resp.data.contract)
             ELSE Fail("No contract found for path"),
             Fail("Failed to resolve contract"))

\* getCollectionInfo after its request was answered
getCollectionInfoResult(resp) ==
    TryCatch(IF Transport(resp).status = "threw" \/ resp.kind = "malformed" THEN Threw
             ELSE IF resp.kind = "ok" THEN Ok(resp.data)
             ELSE Fail("Collection not found"),
             Fail("Failed to fetch collection info"))

\* the synthesis with the contract of the last sampled token
getProjectTokensAsCollectionResultLastToken(resp) ==
    TryCatch(IF Transport(resp).status = "threw" \/ resp.kind = "malformed" THEN Threw
             ELSE IF resp.kind # "ok" THEN Fail("No gallery found for project")
             ELSE IF resp.data.tokens = <<>> THEN Fail("No tokens found in gallery")
             ELSE Ok([contract     |-> resp.data.tokens[Len(resp.data.tokens)].token.fa_contract,
                      items        |-> Field(resp.data, "items"),
                      editions     |-> Field(resp.data, "editions"),
                      owners       |-> Field(resp.data, "owners"),
                      floor_price  |-> Field(resp.data, "floor_price"),
                      volume_24h   |-> Field(resp.data, "volume_24h"),
                      volume_total |-> <<>>]),
             Fail("Failed to build project collection"))

\* getProjectTokensAsCollection after its request was answered
getProjectTokensAsCollectionResult(resp) ==
    TryCatch(IF Transport(resp).status = "threw" \/ resp.kind = "malformed" THEN Threw
             ELSE IF resp.kind # "ok" THEN Fail("No gallery found for project")
             ELSE IF resp.data.tokens = <<>> THEN Fail("No tokens found in gallery")
             ELSE Ok([contract     |-> First(resp.data.tokens).token.fa_contract,
                      items        |-> Field(resp.data, "items"),
                      editions     |-> Field(resp.data, "editions"),
                      owners       |-> Field(resp.data, "owners"),
                      floor_price  |-> Field(resp.data, "floor_price"),
                      volume_24h   |-> Field(resp.data, "volume_24h"),
                      volume_total |-> <<>>]),
             Fail("Failed to build project collection"))

\* getCollectionByProject after its request was answered; op is "gallery"
\* for the fxhash and bootloader platforms, "project" for the others
getCollectionByProjectResult(op, resp) ==
    TryCatch(IF op = "gallery" THEN getProjectTokensAsCollectionResult(resp)
             ELSE IF Transport(resp).status = "threw" \/ resp.kind = "malformed" THEN Threw
             ELSE IF resp.kind = "ok" THEN Ok(resp.data)
             ELSE Fail("Collection project not found"),
             Fail("Failed to fetch collection project"))

\* TzktApiService.getTokenInfo after its request was answered
getTokenInfoResult(resp) ==
    TryCatch(IF Transport(resp).status = "threw" THEN Threw
             ELSE IF resp.kind = "ok" THEN Ok(resp.data)
             ELSE Fail("Token not found"),
             Fail("TZKT API error"))

(* ---------------------------------------------------------------------- *)
(* Per-match tasks of NFTService                                           *)
(*                                                                         *)
(* A task is the promise of one match.  Its code runs without interruption *)
(* from one await of an outbound request to the next, so a step of a task  *)
(* is: start, or continue after the answer to its request in flight.       *)
(*   pc  : "new", the request awaited ("resolve", "token", "tzkt",         *)
(*         "project", "gallery", "pathresolve", "collection"), or "done"   *)
(*   m   : the match the fetch function works on                           *)
(*   out : the value the task settled with                                 *)
(* ---------------------------------------------------------------------- *)

NewTask(m) == [pc |-> "new", m |-> m, out |-> Pending]

Wait(m, op) == [pc |-> op, m |-> m, out |-> Pending]

Done(m, o) == [pc |-> "done", m |-> m, out |-> o]

Step(t, w) == [t |-> t, w |-> w]

\* getTokenMetadata up to its request, and fetchObjktNFT's reading of a refusal
CallGetTokenMetadata(w, i, m, contractAddress) ==
    LET g == Gate(w, "objkt", <<"token", contractAddress, m.tokenId>>)
    IN  IF g.ok
        THEN Step(Wait(m, "token"),
                  Issue(g.w, i, "objkt", "token", contractAddress, m.tokenId, g.gate))
        ELSE Step(Done(m, Fail("Failed to fetch token metadata")), g.w)

\* fetchObjktNFT from "At this point we should have a valid KT contract address"
ObjktWithContract(w, i, m, contractAddress) ==
    IF contractAddress = <<>> \/ ~isKTAddress(contractAddress)
    THEN Step(Done(m, Fail("Invalid or missing contract address")), w)
    ELSE CallGetTokenMetadata(w, i, m, contractAddress)

\* fetchObjktNFT up to its first await
fetchObjktNFT(w, i, m) ==
    LET contractAddress == m.contractAddress
        pathToResolve   == OrElse(contractAddress, m.tokenId)
    IN  IF contractAddress = <<>> \/ ~isKTAddress(contractAddress)
        THEN IF contractAddress # <<>> /\ InMarketplaceContracts(contractAddress)
             THEN ObjktWithContract(w, i, m, HEN_CONTRACT)
             ELSE Step(Wait(m, "resolve"),
                       Issue(w, i, "objkt", "resolve", pathToResolve, <<>>, NoGate))
        ELSE ObjktWithContract(w, i, m, contractAddress)

\* getTokenInfo up to its request, and fetchFromTzkt's reading of a refusal
fetchFromTzkt(w, i, m) ==
    LET g == Gate(w, "tzkt", <<"tokens", m.contractAddress, m.tokenId>>)
    IN  IF g.ok
        THEN Step(Wait(m, "tzkt"),
                  Issue(g.w, i, "tzkt", "tzkt", m.contractAddress, m.tokenId, g.gate))
        ELSE Step(Done(m, Fail("Rate limit exceeded. Please try again later.")), g.w)

\* fetchNFTData up to its first await: the switch on the marketplace
fetchNFTData(w, i, match) ==
    CASE match.marketplace \in {"OBJKT", "EditArt"} ->
            fetchObjktNFT(w, i, match)
      [] match.marketplace = "Bootloader" ->
            fetchObjktNFT(w, i, [match EXCEPT !.marketplace = "OBJKT",
                                    !.contractAddress = OrElse(@, <<"bootloader">>)])
      [] match.marketplace = "fxhash" ->
            fetchFromTzkt(w, i, [match EXCEPT !.contractAddress = FXHASH_CONTRACT])
      [] match.marketplace = "Teia" ->
            fetchObjktNFT(w, i, [match EXCEPT !.contractAddress = HEN_CONTRACT])
      [] match.marketplace = "Versum" ->
            IF match.contractAddress = <<>>
            THEN Step(Done(match, Fail("Contract address is required for Versum tokens")), w)
            ELSE fetchFromTzkt(w, i, match)
      [] OTHER -> Step(Done(match, Fail("Unsupported marketplace")), w)

\* a task of processMessage continues after the answer resp
ContinueNFT(w, i, t, resp) ==
    CASE t.pc = "resolve" ->
            LET contractResult == resolveContractFromPathResult(resp)
            IN  IF contractResult.status = "threw" THEN Step(Done(t.m, Threw), w)
                ELSE IF contractResult.status # "ok" \/ contractResult.data[1] = <<>>
                THEN Step(Done(t.m, Fail("Could not resolve contract address for path")), w)
                ELSE ObjktWithContract(w, i, t.m, contractResult.data[1])
      [] t.pc = "token" ->
            LET metadataResult == getTokenMetadataResult(resp)
            IN  IF metadataResult.status = "threw" THEN Step(Done(t.m, Threw), w)
                ELSE IF metadataResult.status # "ok"
                THEN Step(Done(t.m, Fail("Failed to fetch token metadata")), w)
                ELSE IF buildObjktNFTThrows(metadataResult.data[1])
                THEN Step(Done(t.m, Threw), w)
                ELSE Step(Done(t.m, Ok(buildObjktNFT(metadataResult.data[1], t.m))), w)
      [] t.pc = "tzkt" ->
            LET tokenResult == getTokenInfoResult(resp)
            IN  IF tokenResult.status = "threw" THEN Step(Done(t.m, Threw), w)
                ELSE IF tokenResult.status # "ok"
                THEN Step(Done(t.m, Fail(tokenResult.error[1])), w)
                ELSE IF fetchFromTzktThrows(tokenResult.data[1])
                THEN Step(Done(t.m, Threw), w)
                ELSE Step(Done(t.m, Ok(BuildTzktNFT(t.m.tokenId, t.m.marketplace, t.m.url))), w)

\* the try/catch of fetchNFTData around the whole task
CatchNFT(st) ==
    IF st.t.pc = "done"
    THEN Step([st.t EXCEPT !.out = TryCatch(@, Fail("Failed to fetch NFT data"))], st.w)
    ELSE st

\* match.marketplace.toLowerCase(), as a string value
LowerName(name) ==
    CASE name = "OBJKT" -> <<"objkt">>
      [] name = "fxhash" -> <<"fxhash">>
      [] name = "Bootloader" -> <<"bootloader">>
      [] name = "EditArt" -> <<"editart">>
      [] OTHER -> <<"other">>

\* getCollectionInfo up to its request, and fetchObjktCollection's reading of a refusal
CallGetCollectionInfo(w, i, m, contractAddress) ==
    LET g == Gate(w, "objkt", <<"collection">>)
    IN  IF g.ok
        THEN Step(Wait(m, "collection"),
                  Issue(g.w, i, "objkt", "collection", contractAddress, <<>>, g.gate))
        ELSE Step(Done(m, Fail("Collection not found or failed to fetch data")), g.w)

\* fetchObjktCollection from `if (!contractAddress)`
CollectionWithContract(w, i, m, contractAddress) ==
    IF contractAddress = <<>>
    THEN Step(Done(m, Fail("No contract address available for collection")), w)
    ELSE CallGetCollectionInfo(w, i, m, contractAddress)

\* fetchObjktCollection from `let contractAddress = match.contractAddress`,
\* with resolveContractAddress up to its request
CollectionByContract(w, i, m) ==
    LET contractAddress == m.contractAddress
    IN  IF contractAddress # <<>> /\ ~isKTAddress(contractAddress)
        THEN IF InMarketplaceContracts(contractAddress)
             THEN CollectionWithContract(w, i, m, HEN_CONTRACT)
             ELSE Step(Wait(m, "pathresolve"),
                       Issue(w, i, "objkt", "resolve", contractAddress, <<>>, NoGate))
        ELSE CollectionWithContract(w, i, m, contractAddress)

\* fetchObjktCollection up to its first await
fetchObjktCollection(w, i, m) ==
    IF m.projectId # <<>>
    THEN LET platform == OrElse(m.contractAddress, LowerName(m.marketplace))
             op == IF platform \in {<<"fxhash">>, <<"bootloader">>} THEN "gallery" ELSE "project"
             g  == Gate(w, "objkt", <<"collection-project">>)
         IN  IF g.ok
             THEN Step(Wait(m, op), Issue(g.w, i, "objkt", op, platform, m.projectId, g.gate))
             ELSE CollectionByContract(g.w, i, m)
    ELSE CollectionByContract(w, i, m)

\* a task of processCollections continues after the answer resp
ContinueCollection(w, i, t, resp) ==
    CASE t.pc \in {"project", "gallery"} ->
            LET projectResult == getCollectionByProjectResult(t.pc, resp)
            IN  IF projectResult.status = "threw" THEN Step(Done(t.m, Threw), w)
                ELSE IF projectResult.status = "ok"
                THEN Step(Done(t.m, Ok(buildCollectionFromData(projectResult.data[1], t.m))), w)
                ELSE CollectionByContract(w, i, t.m)
      [] t.pc = "pathresolve" ->
            LET r == TryCatch(resolveContractFromPathResult(resp), Fail("null"))
            IN  IF r.status = "threw" THEN Step(Done(t.m, Threw), w)
                ELSE IF r.status # "ok" \/ r.data[1] = <<>>
                THEN Step(Done(t.m, Fail("Could not resolve contract address for")), w)
                ELSE CollectionWithContract(w, i, t.m, r.data[1])
      [] t.pc = "collection" ->
            LET collectionResult == getCollectionInfoResult(resp)
            IN  IF collectionResult.status = "threw" THEN Step(Done(t.m, Threw), w)
                ELSE IF collectionResult.status # "ok"
                THEN Step(Done(t.m, Fail("Collection not found or failed to fetch data")), w)
                ELSE Step(Done(t.m, Ok(buildCollectionFromData(collectionResult.data[1], t.m))), w)

\* the try/catch of fetchObjktCollection, of fetchCollectionData and of the
\* async arrow that processCollections maps over the matches
CatchCollection(st) ==
    IF st.t.pc = "done"
    THEN Step([st.t EXCEPT !.out =
                   TryCatch(TryCatch(TryCatch(@, Fail("Failed to fetch collection data")),
                                     Fail("Failed to fetch collection data")),
                            Fail("Failed to fetch collection data"))],
              st.w)
    ELSE st

(* ---------------------------------------------------------------------- *)
(* The orchestrator: processMessage and processCollections                 *)
(* ---------------------------------------------------------------------- *)

\* for (const match of matches) await ...: only the first task has run when
\* the entry point first yields
StartOneAtATime(ms, ts, w, isNFT) ==
    LET st == IF isNFT THEN CatchNFT(fetchNFTData(w, 1, ms[1]))
              ELSE CatchCollection(fetchObjktCollection(w, 1, ms[1]))
    IN  [ts |-> <<st.t>> \o [k \in 1..(Len(ms) - 1) |-> NewTask(ms[k + 1])], w |-> st.w]

RECURSIVE StartAll(_, _, _, _)
\* matches.map((match) => ...): every task runs to its first await, in match
\* order, before the map returns.  ts are the tasks started so far.
StartAll(ms, ts, w, isNFT) ==
    IF Len(ts) = Len(ms) THEN [ts |-> ts, w |-> w]
    ELSE LET i  == Len(ts) + 1
             st == IF isNFT THEN CatchNFT(fetchNFTData(w, i, ms[i]))
                   ELSE CatchCollection(fetchObjktCollection(w, i, ms[i]))
         IN  StartAll(ms, Append(ts, st.t), st.w, isNFT)

\* a task's promise: rejected when an exception left its function
Rejected(t) == t.pc = "done" /\ t.out.status = "threw"

Succeeded(t) == t.pc = "done" /\ t.out.status = "ok" /\ t.out.data # <<>>

Failed(t) == t.pc = "done" /\ ~Succeeded(t)

RECURSIVE CollectUntilFailure(_, _)
\* a loop over the results that stops at the first failed one
CollectUntilFailure(ts, k) ==
    IF k > Len(ts) \/ ~Succeeded(ts[k]) THEN <<>>
    ELSE <<ts[k].out.data[1]>> \o CollectUntilFailure(ts, k + 1)

RECURSIVE CollectReversed(_, _)
\* the records of the successful results, last match first
CollectReversed(ts, k) ==
    IF k > Len(ts) THEN <<>>
    ELSE CollectReversed(ts, k + 1)
             \o (IF Succeeded(ts[k]) THEN <<ts[k].out.data[1]>> ELSE <<>>)

RECURSIVE Collect(_, _)
\* results.forEach of the two entry points: the records of the successful
\* results, in index order, from index k on
Collect(ts, k) ==
    IF k > Len(ts) THEN <<>>
    ELSE (IF Succeeded(ts[k]) THEN <<ts[k].out.data[1]>> ELSE <<>>) \o Collect(ts, k + 1)

\* errors = [...] in place of errors.push(...): only the last reason is kept
CollectLastError(ts, ms, k) ==
    LET failed == {i \in k..Len(ts) : ~Succeeded(ts[i])}
    IN  IF failed = {} THEN <<>>
        ELSE LET i == CHOOSE x \in failed : \A y \in failed : y <= x
             IN  <<[id |-> IF "tokenId" \in DOMAIN ms[i] THEN ms[i].tokenId
                           ELSE ms[i].contractAddress,
                    reason |-> ts[i].out.error]>>

RECURSIVE CollectErrors(_, _, _)
\* errors.push(`Token ${matches[index]?.tokenId}: ${errorMsg}`), resp.
\* errors.push(`Collection ${identifier}: ${result.error || "Unknown error"}`)
CollectErrors(ts, ms, k) ==
    IF k > Len(ts) THEN <<>>
    ELSE (IF Succeeded(ts[k]) THEN <<>>
          ELSE <<[id |-> IF "tokenId" \in DOMAIN ms[k] THEN ms[k].tokenId
                         ELSE OrElse(ms[k].contractAddress, OrElse(ms[k].projectId, <<"unknown">>)),
                  reason |-> OrElse(ts[k].out.error, <<"Unknown error">>)]>>)
         \o CollectErrors(ts, ms, k + 1)

\* what an entry point's promise settles with
Returned(success, data, error) ==
    [settled |-> "fulfilled", success |-> success, data |-> data, error |-> error]

Escaped == [settled |-> "rejected", success |-> FALSE, data |-> <<>>, error |-> <<>>]

NoResult == [settled |-> "pending", success |-> FALSE, data |-> <<>>, error |-> <<>>]

\* the statements after the await of an entry point
Aggregate(ts, ms, failedMsg) ==
    LET successful == Collect(ts, 1)
        errs       == CollectErrors(ts, ms, 1)
    IN  IF successful = <<>>
        THEN Returned(FALSE, <<>>, <<[msg |-> failedMsg, reasons |-> errs]>>)
        ELSE Returned(TRUE, <<successful>>, <<>>)

\* the outer try/catch of an entry point: o is ok with the returned value,
\* or threw
CatchEntry(o, msg) ==
    LET c == TryCatch(o, Fail(msg))
    IN  CASE c.status = "ok" -> c.data[1]
          [] c.status = "fail" -> Returned(FALSE, <<>>, <<[msg |-> msg, reasons |-> <<>>]>>)
          [] OTHER -> Escaped

\* the request a task awaits, as the upstream sees it
OpOf(t) == IF t.pc = "pathresolve" THEN "resolve" ELSE t.pc

InFlight(t) == t.pc \notin {"new", "done"}

Init ==
    /\ rateLimit \in ConfiguredRates
    /\ now = StartTime
    /\ objktRateLimit = EmptyMap
    /\ tzktRateLimit = EmptyMap
    /\ lastAccepted = EmptyMap
    /\ pc = "idle"
    /\ entry = "none"
    /\ content \in Messages
    /\ matches = <<>>
    /\ tasks = <<>>
    /\ result = NoResult
    /\ errors = <<>>
    /\ requests = <<>>
    /\ checks = <<>>
    /\ payload = [nothing |-> TRUE]
    /\ nft = <<>>
    /\ referral = <<>>
    /\ author = "user"
    /\ nftResult = NoResult
    /\ collectionsResult = NoResult
    /\ botPc = "off"
    /\ reply = <<>>
    /\ chat = <<>>
    /\ aborted = {}

\* the world after a step is written back
Commit(w) ==
    /\ objktRateLimit' = w.objkt
    /\ tzktRateLimit' = w.tzkt
    /\ lastAccepted' = w.acc
    /\ requests' = w.reqs
    /\ checks' = w.chks

\* an entry point without the early return for an empty match list
CallWithoutEarlyReturn(name, ms, noLinksMsg) ==
    /\ pc = "idle"
    /\ entry' = name
    /\ matches' = ms
    /\ LET sa == StartAll(ms, <<>>, [World EXCEPT !.reqs = <<>>], name = "processMessage")
       IN  /\ pc' = "awaiting"
           /\ tasks' = sa.ts
           /\ result' = NoResult
           /\ Commit(sa.w)
    /\ errors' = <<>>
    /\ UNCHANGED <<rateLimit, now, content, normVars, botVars, aborted>>

\* an entry point is called: detection, the early return, or the dispatch of
\* every task up to the await
Call(name, ms, noLinksMsg) ==
    /\ pc = "idle"
    /\ entry' = name
    /\ matches' = ms
    /\ IF Len(ms) = 0
       THEN /\ pc' = "returned"
            /\ tasks' = <<>>
            /\ result' = Returned(FALSE, <<>>, <<[msg |-> noLinksMsg, reasons |-> <<>>]>>)
            /\ Commit([World EXCEPT !.reqs = <<>>])
       ELSE LET sa == StartAll(ms, <<>>, [World EXCEPT !.reqs = <<>>], name = "processMessage")
            IN  /\ pc' = "awaiting"
                /\ tasks' = sa.ts
                /\ result' = NoResult
                /\ Commit(sa.w)
    /\ errors' = <<>>
    /\ UNCHANGED <<rateLimit, now, content, normVars, botVars, aborted>>

processMessage ==
    Call("processMessage", detectNFTLinks(content),
         "No Tezos marketplace links found in message")

processCollections ==
    Call("processCollections", detectCollectionLinks(content),
         "No Tezos collection links found in message")

\* the upstream answers the request of task i, and the task runs to its next
\* await or to its end
Respond(i, resp) ==
    /\ pc = "awaiting"
    /\ InFlight(tasks[i])
    /\ LET w  == [World EXCEPT !.reqs = Answered(requests, i, resp)]
           st == IF entry = "processMessage"
                 THEN CatchNFT(ContinueNFT(w, i, tasks[i], resp))
                 ELSE CatchCollection(ContinueCollection(w, i, tasks[i], resp))
       IN  /\ tasks' = [tasks EXCEPT ![i] = st.t]
           /\ Commit(st.w)
    /\ UNCHANGED <<rateLimit, now, pc, entry, content, matches, result, errors, normVars, botVars>>

\* Promise.race in place of Promise.allSettled: the first settled task ends
\* the wait
ReturnMessageFirstSettled ==
    /\ pc = "awaiting"
    /\ entry = "processMessage"
    /\ \E i \in 1..Len(tasks) : tasks[i].pc = "done"
    /\ pc' = "returned"
    /\ result' = CatchEntry(Ok(Aggregate(tasks, matches, "Failed to fetch NFT data")),
                            "An unexpected error occurred while processing the message")
    /\ errors' = CollectErrors(tasks, matches, 1)
    /\ checks' = <<>>
    /\ UNCHANGED <<rateLimit, now, objktRateLimit, tzktRateLimit, lastAccepted, entry,
                   content, matches, tasks, requests, normVars, botVars, aborted>>

\* Promise.allSettled(nftPromises) resolves when every task has settled
ReturnMessage ==
    /\ pc = "awaiting"
    /\ entry = "processMessage"
    /\ \A i \in 1..Len(tasks) : tasks[i].pc = "done"
    /\ pc' = "returned"
    /\ result' = CatchEntry(Ok(Aggregate(tasks, matches, "Failed to fetch NFT data")),
                            "An unexpected error occurred while processing the message")
    /\ errors' = CollectErrors(tasks, matches, 1)
    /\ checks' = <<>>
    /\ UNCHANGED <<rateLimit, now, objktRateLimit, tzktRateLimit, lastAccepted, entry,
                   content, matches, tasks, requests, normVars, botVars, aborted>>

\* Promise.all(...) resolves when every task is fulfilled and rejects as soon
\* as one is rejected
ReturnCollections ==
    /\ pc = "awaiting"
    /\ entry = "processCollections"
    /\ \/ \A i \in 1..Len(tasks) : tasks[i].pc = "done"
       \/ \E i \in 1..Len(tasks) : Rejected(tasks[i])
    /\ pc' = "returned"
    /\ result' = CatchEntry(IF \E i \in 1..Len(tasks) : Rejected(tasks[i])
                            THEN Threw
                            ELSE Ok(Aggregate(tasks, matches, "Failed to fetch collection data")),
                            "An unexpected error occurred while processing collections")
    /\ errors' = CollectErrors(tasks, matches, 1)
    /\ checks' = <<>>
    /\ UNCHANGED <<rateLimit, now, objktRateLimit, tzktRateLimit, lastAccepted, entry,
                   content, matches, tasks, requests, normVars, botVars, aborted>>

\* the caller has taken the result; the rate maps live on
Finish ==
    /\ pc = "returned"
    /\ pc' = "idle"
    /\ entry' = "none"
    /\ matches' = <<>>
    /\ tasks' = <<>>
    /\ result' = NoResult
    /\ errors' = <<>>
    /\ requests' = <<>>
    /\ checks' = <<>>
    /\ aborted' = {}
    /\ UNCHANGED <<rateLimit, now, objktRateLimit, tzktRateLimit, lastAccepted, content,
                   normVars, botVars>>

\* time passes
Tick ==
    /\ now < StartTime + MaxTicks * TickMs
    /\ now' = now + TickMs
    /\ checks' = <<>>
    /\ UNCHANGED <<rateLimit, objktRateLimit, tzktRateLimit, lastAccepted, pc, entry,
                   content, matches, tasks, result, errors, requests, normVars, botVars,
                   aborted>>

Next ==
    \/ processMessage
    \/ processCollections
    \/ \E i \in 1..Len(tasks) : \E resp \in Responses(OpOf(tasks[i])) :
          Respond(i, resp) /\ UNCHANGED aborted
    \/ ReturnMessage
    \/ ReturnCollections
    \/ Finish
    \/ Tick

Spec == Init /\ [][Next]_vars

\* the ticks of the clock the fair specification follows
TermTicks == 1

\* Respond, with the aborted requests kept
RespondOrAbort(i, resp) ==
    /\ Respond(i, resp)
    /\ aborted' = IF resp.kind = "timeout"
                  THEN aborted \cup {[task |-> i, op |-> OpOf(tasks[i])]}
                  ELSE aborted

TermTick == now < StartTime + TermTicks * TickMs /\ Tick

TermNext ==
    \/ processMessage
    \/ processCollections
    \/ \E i \in 1..Len(tasks) : \E resp \in Responses(OpOf(tasks[i])) : RespondOrAbort(i, resp)
    \/ ReturnMessage
    \/ ReturnCollections
    \/ Finish
    \/ TermTick

\* every request in flight is answered or aborted (AbortSignal.timeout), and
\* the entry point continues once its Promise.all / allSettled has settled
FairSpec ==
    /\ Init
    /\ [][TermNext]_vars
    /\ WF_vars(\E i \in 1..Len(tasks) : \E resp \in Responses(OpOf(tasks[i])) :
                   RespondOrAbort(i, resp))
    /\ WF_vars(ReturnMessage)
    /\ WF_vars(ReturnCollections)

(* ---------------------------------------------------------------------- *)
(* The normaliser on its own: every combination of sale records            *)
(* ---------------------------------------------------------------------- *)

OpenEditions ==
    { <<>>,
      <<[price |-> <<1000000>>]>>,
      <<[price |-> <<2000000>>, max_per_wallet |-> <<2>>, end_time |-> <<"t">>]>> }

Listings ==
    { <<>>, <<[price |-> <<5000000>>, amount_left |-> <<3>>]>>, <<NULL>> }

\* the last one has the fields the token-detail query asks for, with a bid
EnglishAuctions ==
    { <<>>, <<[reserve |-> <<7000000>>]>>,
      <<[current_price |-> <<8000000>>, reserve |-> <<7000000>>]>>,
      <<[reserve |-> <<7000000>>, highest_bid |-> <<8000000>>]>> }

\* the last one has the fields the token-detail query asks for
DutchAuctions ==
    { <<>>, <<[current_price |-> <<9000000>>]>>,
      <<[start_price |-> <<9000000>>, end_price |-> <<1000000>>]>> }

Supplies == { <<>>, <<0>>, <<10>> }

\* token-detail payloads: an absent open edition and an empty list read as <<>>
SalePayloads ==
    [open_edition_active : OpenEditions, listings_active : Listings,
     english_auctions_active : EnglishAuctions, dutch_auctions_active : DutchAuctions,
     supply : Supplies]

\* the match of the link the payload was fetched for
SaleMatch == First(detectNFTLinks(<<"objkt.com", "/asset/", "KT1", "B33", "/", "1">>))

SaleInit ==
    /\ rateLimit \in ConfiguredRates
    /\ now = StartTime
    /\ objktRateLimit = EmptyMap
    /\ tzktRateLimit = EmptyMap
    /\ lastAccepted = EmptyMap
    /\ pc = "idle"
    /\ entry = "none"
    /\ content = <<>>
    /\ matches = <<>>
    /\ tasks = <<>>
    /\ result = NoResult
    /\ errors = <<>>
    /\ requests = <<>>
    /\ checks = <<>>
    /\ payload \in SalePayloads
    /\ nft = <<>>
    /\ referral = <<>>
    /\ author = "user"
    /\ nftResult = NoResult
    /\ collectionsResult = NoResult
    /\ botPc = "off"
    /\ reply = <<>>
    /\ chat = <<>>
    /\ aborted = {}

\* return this.buildObjktNFT(metadataResult.data, match)
Normalize ==
    /\ nft = <<>>
    /\ nft' = IF buildObjktNFTThrows(payload) THEN <<Threw>>
              ELSE <<Ok(buildObjktNFT(payload, SaleMatch))>>
    /\ UNCHANGED <<rateLimit, now, objktRateLimit, tzktRateLimit, lastAccepted, pc, entry,
                   content, matches, tasks, result, errors, requests, checks, payload, botVars,
                   aborted>>

SaleNext == Normalize

SpecSale == SaleInit /\ [][SaleNext]_vars

(* ---------------------------------------------------------------------- *)
(* The monetary fields on their own: token, collection and gallery answers *)
(* with every combination of present, zero and absent amounts              *)
(* ---------------------------------------------------------------------- *)

\* upstream amounts in minor units: absent, zero, two tez
MoneyAmounts == { <<>>, <<0>>, <<2000000>> }

\* token-detail answers the normaliser returns a record for, without and with
\* their fa object; data.fa[0] of the collection and project queries;
\* data.gallery[0] of the gallery query
MoneyPayloads ==
    { [source |-> "token", body |-> p @@ [fa |-> fa]] :
          p \in { q \in SalePayloads : q.supply = <<10>> /\ ~buildObjktNFTThrows(q) },
          fa \in { <<>> } \cup
                 { <<[floor_price |-> f, volume_24h |-> v, volume_total |-> t]>> :
                       f \in MoneyAmounts, v \in MoneyAmounts, t \in MoneyAmounts } }
    \cup
    { [source |-> "collection",
       body   |-> [contract |-> <<"KT1", "B33">>, floor_price |-> f,
                   volume_24h |-> v, volume_total |-> t]] :
          f \in MoneyAmounts, v \in MoneyAmounts, t \in MoneyAmounts }
    \cup
    { [source |-> "gallery",
       body   |-> [tokens |-> <<[token |-> [fa_contract |-> <<"KT1", "H33">>]]>>,
                   floor_price |-> f, volume_24h |-> v]] :
          f \in MoneyAmounts, v \in MoneyAmounts }

\* the match of the collection link the answer was fetched for
MoneyMatch == First(detectCollectionLinks(<<"objkt.com", "/collections/", "KT1", "B33">>))

MoneyInit ==
    /\ rateLimit \in ConfiguredRates
    /\ now = StartTime
    /\ objktRateLimit = EmptyMap
    /\ tzktRateLimit = EmptyMap
    /\ lastAccepted = EmptyMap
    /\ pc = "idle"
    /\ entry = "none"
    /\ content = <<>>
    /\ matches = <<>>
    /\ tasks = <<>>
    /\ result = NoResult
    /\ errors = <<>>
    /\ requests = <<>>
    /\ checks = <<>>
    /\ payload \in MoneyPayloads
    /\ nft = <<>>
    /\ referral = <<>>
    /\ author = "user"
    /\ nftResult = NoResult
    /\ collectionsResult = NoResult
    /\ botPc = "off"
    /\ reply = <<>>
    /\ chat = <<>>
    /\ aborted = {}

\* fetchObjktNFT: return this.buildObjktNFT(metadata, match)
NormalizeToken ==
    /\ nft = <<>>
    /\ payload.source = "token"
    /\ nft' = <<Ok(buildObjktNFT(payload.body, SaleMatch))>>
    /\ UNCHANGED <<rateLimit, now, objktRateLimit, tzktRateLimit, lastAccepted, pc, entry,
                   content, matches, tasks, result, errors, requests, checks, payload, botVars,
                   aborted>>

\* fetchObjktCollection: return this.buildCollectionFromData(collectionResult.data, match)
NormalizeCollection ==
    /\ nft = <<>>
    /\ payload.source = "collection"
    /\ nft' = <<Ok(buildCollectionFromData(payload.body, MoneyMatch))>>
    /\ UNCHANGED <<rateLimit, now, objktRateLimit, tzktRateLimit, lastAccepted, pc, entry,
                   content, matches, tasks, result, errors, requests, checks, payload, botVars,
                   aborted>>

\* fetchObjktCollection over a project: the record getProjectTokensAsCollection
\* synthesizes from the gallery, then buildCollectionFromData
NormalizeProject ==
    /\ nft = <<>>
    /\ payload.source = "gallery"
    /\ LET projectResult == getProjectTokensAsCollectionResult(Resp("ok", payload.body))
       IN  nft' = <<Ok(buildCollectionFromData(projectResult.data[1], MoneyMatch))>>
    /\ UNCHANGED <<rateLimit, now, objktRateLimit, tzktRateLimit, lastAccepted, pc, entry,
                   content, matches, tasks, result, errors, requests, checks, payload, botVars,
                   aborted>>

MoneyNext == NormalizeToken \/ NormalizeCollection \/ NormalizeProject

SpecMoney == MoneyInit /\ [][MoneyNext]_vars

(* ---------------------------------------------------------------------- *)
(* The message handler: from the two results to the reply                  *)
(*                                                                         *)
(* A card is what validateEmbed and Discord see of an EmbedBuilder: the    *)
(* lengths of its title and description, the number of its fields, its     *)
(* link, and whether toJSON serialises it.  A record carries the lengths   *)
(* of its name and description (0: none).                                  *)
(* ---------------------------------------------------------------------- *)

\* EmbedGeneratorService.limits, the three that validateEmbed checks
limits == [title |-> 256, description |-> 4096, totalFields |-> 25]

\* length of truncateText(text, maxLength) for a text of length n:
\* substring(0, maxLength - 3) + "..."
truncateText(n, maxLength) == IF n <= maxLength THEN n ELSE (maxLength - 3) + 3

RECURSIVE Pick(_, _, _)
\* the elements of seq whose index is in K, in order, from index k on
Pick(seq, K, k) ==
    IF k > Len(seq) THEN <<>>
    ELSE (IF k \in K THEN <<seq[k]>> ELSE <<>>) \o Pick(seq, K, k + 1)

\* the link without the parameter filter: the referral is appended
processMarketplaceUrlAppending(url) ==
    IF referral = <<>> THEN url
    ELSE IF ~(url # <<>> /\ url[1] \in SchemeAtoms) THEN url
    ELSE url \o <<"&", "ref=">> \o referral

\* processMarketplaceUrl: url as it is without a configured address or when
\* new URL(url) throws (a text without a scheme); otherwise the parsed URL
\* written back by toString: lower-case host, the search parameters but ref
\* in their serialised form, then ref=<address>
processMarketplaceUrl(url) ==
    IF referral = <<>> THEN url
    ELSE IF ~(url # <<>> /\ url[1] \in SchemeAtoms) THEN url
    ELSE LET marks  == {i \in 1..Len(url) : url[i] = "?"}
             q      == IF marks = {} THEN Len(url) + 1
                       ELSE CHOOSE i \in marks : \A j \in marks : i <= j
             query  == SubSeq(url, q + 1, Len(url))
             params == Pick(query, {k \in 1..Len(query) : query[k] # "ref=x"}, 1)
             kept   == [k \in 1..Len(params) |-> IF params[k] = "a" THEN "a=" ELSE params[k]]
         IN  <<url[1], Lower(url[2])>> \o SubSeq(url, 3, q - 1) \o <<"?">>
                 \o kept \o (IF kept # <<>> THEN <<"&">> ELSE <<>>)
                 \o <<"ref=">> \o referral

\* createNFTEmbed: "Unknown NFT" for a missing name; the fields are the
\* contract field, the three community links and those of addNFTFields that
\* depend on the sale
createNFTEmbed(token) ==
    [kind         |-> "nft",
     title        |-> truncateText(IF token.name = 0 THEN 11 ELSE token.name, limits.title),
     description  |-> IF token.description = 0 THEN 0 ELSE truncateText(token.description, 200),
     fields       |-> 4 + (IF token.price # <<>> THEN 1 ELSE 0)
                        + (IF token.saleType = <<"open_edition">> /\ token.openEditionInfo # <<>>
                           THEN 1 ELSE 0)
                        + (IF token.edition # <<>> /\ token.saleType # <<"open_edition">>
                           THEN 1 ELSE 0),
     url          |-> IF token.marketplace.url # <<>>
                      THEN <<processMarketplaceUrl(token.marketplace.url)>> ELSE <<>>,
     serializable |-> token.serializable]

\* createCollectionEmbed: the title is an emoji, a space and the name
createCollectionEmbed(collection) ==
    [kind         |-> "collection",
     title        |-> 3 + truncateText(collection.name, 200),
     description  |-> IF collection.description = 0 THEN 0
                      ELSE truncateText(collection.description, 150),
     fields       |-> 4 + (IF collection.items # <<>> \/ collection.owners # <<>>
                              \/ collection.editions # <<>> THEN 1 ELSE 0)
                        + (IF collection.floorPrice # <<>> \/ collection.volume24h # <<>>
                              \/ collection.volumeTotal # <<>> THEN 1 ELSE 0),
     url          |-> IF collection.marketplace.url # <<>>
                      THEN <<processMarketplaceUrl(collection.marketplace.url)>> ELSE <<>>,
     serializable |-> collection.serializable]

\* createLoadingEmbed: fixed texts, no link
createLoadingEmbed ==
    [kind |-> "loading", title |-> 25, description |-> 32, fields |-> 0,
     url |-> <<>>, serializable |-> TRUE]

\* createErrorEmbed(message, details): the title is fixed, the description is
\* the message and the details, when given, are the one field; texts are the
\* two texts the card shows
createErrorEmbed(message, details) ==
    [kind |-> "error", title |-> 7, description |-> truncateText(Len(message), 300),
     fields |-> IF details # "" THEN 1 ELSE 0, url |-> <<>>, serializable |-> TRUE,
     texts |-> {message, details}]

\* validateEmbed: false when toJSON throws or a limit is exceeded
validateEmbed(embed) ==
    /\ embed.serializable
    /\ ~(embed.title # 0 /\ embed.title > limits.title)
    /\ ~(embed.description # 0 /\ embed.description > limits.description)
    /\ ~(embed.fields # 0 /\ embed.fields > limits.totalFields)

\* a message with a link of every NFT pattern and four collection links
LongMessage ==
    Join(Join(Join(Join(Join(Join(Join(Join(Join(Join(Join(
        <<"https://", "objkt.com", "/asset/", "KT1", "B33", "/", "1">>,
        <<"objkt.com", "/tokens/", "hicetnunc", "/", "2">>),
        <<"objkt.com", "/objkt/", "1">>),
        <<"fxhash.xyz", "/gentk/", "1">>),
        <<"teia.art", "/objkt/", "2", "?", "a">>),
        <<"versum.xyz", "/token/", "KT1", "B33", "/", "1">>),
        <<"bootloader.art", "/token/", "1">>),
        <<"editart.xyz", "/token-detail/", "KT1", "B33", "/", "2">>),
        <<"https://", "objkt.com", "/collections/", "KT1", "B33">>),
        <<"fxhash.xyz", "/generative/", "1">>),
        <<"bootloader.art", "/generator/", "2">>),
        <<"editart.xyz", "/series/", "KT1", "H33">>)

\* the texts a message event carries: those above, a blank one, the long
\* one, links with a scheme and a ref parameter, another parameter, an
\* upper-case host
BotMessages ==
    Messages \cup
    { LongMessage, <<" ">>,
      <<"https://", "objkt.com", "/asset/", "KT1", "B33", "/", "1", "?", "ref=x">>,
      <<"https://", "teia.art", "/objkt/", "2", "?", "a">>,
      <<"https://", "OBJKT.COM", "/collections/", "KT1", "B33">> }

\* lengths of a record's name and description; whether its card serialises
RecordTexts ==
    { [name |-> 0, description |-> 0], [name |-> 20, description |-> 5000],
      [name |-> 300, description |-> 5000] }

\* the matches whose fetch succeeded: all, none, the first, all but the first
Outcomes(n) == {1..n, {}, {1}, 2..n}

\* the records whose card toJSON cannot serialise: none, the first, all
Unserializable(n) == {{}, {1}, 1..n}

\* the reason a failed task of match m is reported with
FailureReason(m) ==
    [id     |-> IF "tokenId" \in DOMAIN m THEN m.tokenId
                ELSE OrElse(m.contractAddress, OrElse(m.projectId, <<"unknown">>)),
     reason |-> <<"Request failed">>]

\* what an entry point returns for the records of its successful tasks out
\* of the matches ms: without a match the early return, without a record the
\* failure with the reason of every match
ServiceResult(records, ms, text, bad) ==
    IF ms = <<>>
    THEN Returned(FALSE, <<>>, <<[msg |-> "No links found", reasons |-> <<>>]>>)
    ELSE IF records = <<>>
    THEN Returned(FALSE, <<>>,
                  <<[msg     |-> "Failed to fetch",
                     reasons |-> [k \in 1..Len(ms) |-> FailureReason(ms[k])]]>>)
    ELSE Returned(TRUE,
                  <<[k \in 1..Len(records) |->
                        records[k] @@ [name |-> text.name, description |-> text.description,
                                       serializable |-> k \notin bad]]>>,
                  <<>>)

\* the record a successful task of processMessage returns for match m
NFTRecordOf(m, metadata) ==
    IF m.marketplace \in {"fxhash", "Versum"}
    THEN BuildTzktNFT(m.tokenId, m.marketplace, m.url)
    ELSE buildObjktNFT(metadata, m)

BotInit ==
    /\ rateLimit \in ConfiguredRates
    /\ now = StartTime
    /\ objktRateLimit = EmptyMap
    /\ tzktRateLimit = EmptyMap
    /\ lastAccepted = EmptyMap
    /\ pc = "idle"
    /\ entry = "none"
    /\ content \in BotMessages
    /\ matches = <<>>
    /\ tasks = <<>>
    /\ result = NoResult
    /\ errors = <<>>
    /\ requests = <<>>
    /\ checks = <<>>
    /\ payload = [nothing |-> TRUE]
    /\ nft = <<>>
    /\ referral \in {<<>>, <<"tz1">>}
    /\ author \in {"user", "bot"}
    /\ nftResult = NoResult
    /\ collectionsResult = NoResult
    /\ botPc = "received"
    /\ reply = <<>>
    /\ chat = <<>>
    /\ aborted = {}

\* message.author.bot, !message.content.trim()
Ignored == author = "bot" \/ \A i \in 1..Len(content) : content[i] = " "

\* the two early returns of handleMessage
Ignore ==
    /\ botPc = "received"
    /\ Ignored
    /\ botPc' = "done"
    /\ UNCHANGED <<serviceVars, content, normVars, referral, author, nftResult,
                   collectionsResult, reply, chat>>

\* the variables of the services that a call from the handler leaves alone
calleeVars ==
    <<rateLimit, now, objktRateLimit, tzktRateLimit, lastAccepted, tasks, result, errors,
      requests, checks, aborted>>

\* this.nftService.processMessage(message.content) is called: detection
CallProcessMessage ==
    /\ botPc = "received"
    /\ ~Ignored
    /\ pc' = "awaiting"
    /\ entry' = "processMessage"
    /\ matches' = detectNFTLinks(content)
    /\ botPc' = "nfts"
    /\ UNCHANGED <<calleeVars, content, normVars, referral, author, nftResult,
                   collectionsResult, reply, chat>>

\* const nftResult = await ...: the records of the matches whose task succeeded
AwaitProcessMessage ==
    /\ botPc = "nfts"
    /\ entry = "processMessage"
    /\ LET metadata == CHOOSE q \in TokenPayloads : Field(q, "supply") # <<>>
           records  == [k \in 1..Len(matches) |-> NFTRecordOf(matches[k], metadata)]
       IN  \E K \in Outcomes(Len(matches)), bad \in Unserializable(Len(matches)),
              text \in RecordTexts :
               nftResult' = ServiceResult(Pick(records, K, 1), matches, text, bad)
    /\ pc' = "idle"
    /\ entry' = "none"
    /\ matches' = <<>>
    /\ UNCHANGED <<calleeVars, content, normVars, referral, author, botPc,
                   collectionsResult, reply, chat>>

\* this.nftService.processCollections(message.content) is called: detection
CallProcessCollections ==
    /\ botPc = "nfts"
    /\ entry = "none"
    /\ pc' = "awaiting"
    /\ entry' = "processCollections"
    /\ matches' = detectCollectionLinks(content)
    /\ botPc' = "collections"
    /\ UNCHANGED <<calleeVars, content, normVars, referral, author, nftResult,
                   collectionsResult, reply, chat>>

\* const collectionResult = await ...
AwaitProcessCollections ==
    /\ botPc = "collections"
    /\ LET data    == CHOOSE d \in CollectionPayloads : Field(d, "contract") # <<>>
           records == [k \in 1..Len(matches) |-> buildCollectionFromData(data, matches[k])]
       IN  \E K \in Outcomes(Len(matches)), bad \in Unserializable(Len(matches)),
              text \in RecordTexts :
               collectionsResult' = ServiceResult(Pick(records, K, 1), matches, text, bad)
    /\ pc' = "idle"
    /\ entry' = "none"
    /\ matches' = <<>>
    /\ botPc' = "processed"
    /\ UNCHANGED <<calleeVars, content, normVars, referral, author, nftResult, reply,
                   chat>>

\* hasNFTs and hasCollections
HasData(r) == r.success /\ r.data # <<>> /\ Len(r.data[1]) > 0

\* a chat-platform call (message.reply, loadingMessage.edit) resolves or
\* rejects
Called(call, kind, ok) == Append(chat, [call |-> call, kind |-> kind, ok |-> ok])

\* the silent return when neither result has data, or message.reply with the
\* loading card; a rejected reply is caught by the outer catch
ReplyLoading ==
    /\ botPc = "processed"
    /\ IF ~HasData(nftResult) /\ ~HasData(collectionsResult)
       THEN /\ botPc' = "done"
            /\ UNCHANGED <<reply, chat>>
       ELSE \E ok \in BOOLEAN :
              /\ chat' = Called("reply", "loading", ok)
              /\ IF ok
                 THEN /\ botPc' = "loading"
                      /\ reply' = Append(reply, [kind   |-> "loading",
                                                 embeds |-> <<createLoadingEmbed>>])
                 ELSE /\ botPc' = "caught"
                      /\ reply' = reply
    /\ UNCHANGED <<serviceVars, content, normVars, referral, author, nftResult,
                   collectionsResult>>

\* the cards of the records of r
CardsOf(r, isNFT) ==
    IF ~HasData(r) THEN <<>>
    ELSE [k \in 1..Len(r.data[1]) |->
             IF isNFT THEN createNFTEmbed(r.data[1][k])
             ELSE createCollectionEmbed(r.data[1][k])]

\* the two loops of handleMessage with every card pushed
BuildEmbedsUnchecked(nfts, collections) ==
    CardsOf(nfts, TRUE) \o CardsOf(collections, FALSE)

\* the two loops of handleMessage: if (validateEmbed(embed)) embeds.push(embed)
BuildEmbeds(nfts, collections) ==
    LET nftCards        == CardsOf(nfts, TRUE)
        collectionCards == CardsOf(collections, FALSE)
    IN  Pick(nftCards, {k \in 1..Len(nftCards) : validateEmbed(nftCards[k])}, 1)
            \o Pick(collectionCards,
                    {k \in 1..Len(collectionCards) : validateEmbed(collectionCards[k])}, 1)

\* the inner try: the throw when no card is valid, else loadingMessage.edit
\* with the first ten cards; the throw and a rejected edit reach the inner
\* catch
EditReply ==
    /\ botPc = "loading"
    /\ LET embeds == BuildEmbeds(nftResult, collectionsResult)
       IN  IF Len(embeds) = 0
           THEN /\ botPc' = "failed"
                /\ UNCHANGED <<reply, chat>>
           ELSE \E ok \in BOOLEAN :
                  /\ chat' = Called("edit", "preview", ok)
                  /\ IF ok
                     THEN /\ botPc' = "done"
                          /\ reply' = [reply EXCEPT ![1] =
                                 [kind   |-> "preview",
                                  embeds |-> SubSeq(embeds, 1, IF Len(embeds) < 10
                                                               THEN Len(embeds) ELSE 10)]]
                     ELSE /\ botPc' = "failed"
                          /\ reply' = reply
    /\ UNCHANGED <<serviceVars, content, normVars, referral, author, nftResult,
                   collectionsResult>>

\* an inner catch that only logs
EditErrorLogOnly ==
    /\ botPc = "failed"
    /\ botPc' = "done"
    /\ UNCHANGED <<serviceVars, content, normVars, referral, author, nftResult,
                   collectionsResult, reply, chat>>

\* the inner catch: loadingMessage.edit with the error card; a rejected edit
\* reaches the outer catch
EditError ==
    /\ botPc = "failed"
    /\ \E ok \in BOOLEAN :
         /\ chat' = Called("edit", "error", ok)
         /\ IF ok
            THEN /\ botPc' = "done"
                 /\ reply' = [reply EXCEPT ![1] =
                        [kind   |-> "error",
                         embeds |-> <<createErrorEmbed(
                             "Failed to generate NFT preview",
                             "Unable to fetch or process NFT data. Please try again later.")>>]]
            ELSE /\ botPc' = "caught"
                 /\ reply' = reply
    /\ UNCHANGED <<serviceVars, content, normVars, referral, author, nftResult,
                   collectionsResult>>

\* the reply of the outer catch escaping its try
CatchReplyUncaught(ok) == IF ok THEN "done" ELSE "thrown"

\* where the outer catch ends: its own try/catch takes a rejected reply
CatchReplyEnd(ok) == "done"

\* the outer catch: message.reply with an error card
CatchReply ==
    /\ botPc = "caught"
    /\ \E ok \in BOOLEAN :
         /\ chat' = Called("reply", "error", ok)
         /\ reply' = IF ok
                     THEN Append(reply,
                              [kind   |-> "error",
                               embeds |-> <<createErrorEmbed(
                                   "An unexpected error occurred",
                                   "Please try again later or contact support.")>>])
                     ELSE reply
         /\ botPc' = CatchReplyEnd(ok)
    /\ UNCHANGED <<serviceVars, content, normVars, referral, author, nftResult,
                   collectionsResult>>

BotNext ==
    \/ Ignore
    \/ CallProcessMessage
    \/ AwaitProcessMessage
    \/ CallProcessCollections
    \/ AwaitProcessCollections
    \/ ReplyLoading
    \/ EditReply
    \/ EditError
    \/ CatchReply

SpecBot == BotInit /\ [][BotNext]_vars

\* every chat-platform call settles, and the handler, an async function on
\* the event loop, then runs on: the steps after the loading reply are taken
FairSpecBot ==
    SpecBot /\ WF_vars(EditReply) /\ WF_vars(EditError) /\ WF_vars(CatchReply)

(* ---------------------------------------------------------------------- *)
(* Properties                                                              *)
(* ---------------------------------------------------------------------- *)

TaskIds == 1..Len(tasks)

\* the records an entry point returned
ReturnedData == IF result.data = <<>> THEN <<>> ELSE result.data[1]

\* C1: when an entry point has returned and at least one per-match task
\* succeeded, the result is a success and its list holds exactly one record
\* for each match whose task succeeded, that task's record, and none for a
\* match whose task failed.
C1_PartialSuccess ==
    (pc = "returned" /\ \E i \in TaskIds : Succeeded(tasks[i])) =>
        /\ result.settled = "fulfilled"
        /\ result.success
        /\ Len(ReturnedData) = Cardinality({i \in TaskIds : Succeeded(tasks[i])})
        /\ \A i \in TaskIds :
              LET mine == {k \in 1..Len(ReturnedData) :
                              ReturnedData[k].marketplace.url = matches[i].url}
              IN  IF Succeeded(tasks[i])
                  THEN \E k \in mine : mine = {k} /\ ReturnedData[k] = tasks[i].out.data[1]
                  ELSE mine = {}

\* processMessage returned a success although the first of two tasks failed
C1_Witness ==
    /\ pc = "returned"
    /\ entry = "processMessage"
    /\ Len(tasks) = 2
    /\ Failed(tasks[1])
    /\ Succeeded(tasks[2])
    /\ result.success

C2_StartedTogether ==
    pc = "awaiting" => (Len(tasks) = Len(matches) /\ \A i \in TaskIds : tasks[i].pc # "new")

C2_FailureLeavesSiblings ==
    (pc = "awaiting" /\ pc' = "awaiting") =>
        \A i \in TaskIds :
            (Failed(tasks'[i]) /\ ~Failed(tasks[i])) =>
                \A j \in TaskIds \ {i} : tasks'[j] = tasks[j]

C2_SiblingsContribute ==
    (pc = "returned" /\ Len(matches) > 0) =>
        \A i \in TaskIds :
            /\ tasks[i].pc = "done"
            /\ Succeeded(tasks[i]) =>
                   \E k \in 1..Len(ReturnedData) : ReturnedData[k] = tasks[i].out.data[1]

\* C2: while an entry point awaits, every per-match task has been started
\* (none waits for a sibling); a step in which one task fails leaves every
\* sibling as it was, in flight or settled; and the entry point returns only
\* when every task has settled, with the record of every task that succeeded.
C2_ConcurrentIsolated ==
    /\ []C2_StartedTogether
    /\ [][C2_FailureLeavesSiblings]_vars
    /\ []C2_SiblingsContribute

\* one task has failed while its sibling is still in flight
C2_Witness ==
    /\ pc = "awaiting"
    /\ \E i, j \in TaskIds : Failed(tasks[i]) /\ InFlight(tasks[j])

NoNFTPattern ==
    \A k \in 1..Len(MARKETPLACE_PATTERNS) : ~RegexMatch(MARKETPLACE_PATTERNS[k], content).found

NoCollectionPattern ==
    \A k \in 1..Len(COLLECTION_PATTERNS) : ~RegexMatch(COLLECTION_PATTERNS[k], content).found

NoLinks(msg) == Returned(FALSE, <<>>, <<[msg |-> msg, reasons |-> <<>>]>>)

\* a call of entry point name on a text its patterns do not match returns
\* NoLinks(msg) at once, without a request and with both rate maps as before
C3_EarlyReturn(name, unmatched, msg) ==
    (pc = "idle" /\ pc' # "idle" /\ entry' = name /\ unmatched) =>
        /\ pc' = "returned"
        /\ result' = NoLinks(msg)
        /\ requests' = <<>>
        /\ checks' = <<>>
        /\ objktRateLimit' = objktRateLimit
        /\ tzktRateLimit' = tzktRateLimit

\* C3: on a text that no NFT pattern (no collection pattern) matches,
\* detectNFTLinks (detectCollectionLinks) returns the empty list, and
\* processMessage (processCollections) returns its "no links found" failure
\* without issuing a request and without changing a rate-gate timestamp.
C3_NoLinks ==
    /\ [](NoNFTPattern => detectNFTLinks(content) = <<>>)
    /\ [](NoCollectionPattern => detectCollectionLinks(content) = <<>>)
    /\ [][C3_EarlyReturn("processMessage", NoNFTPattern,
                         "No Tezos marketplace links found in message")]_vars
    /\ [][C3_EarlyReturn("processCollections", NoCollectionPattern,
                         "No Tezos collection links found in message")]_vars

\* processMessage found no link in a text that holds a collection link, after
\* an earlier call left timestamps in the rate map
C3_Witness ==
    /\ pc = "returned"
    /\ entry = "processMessage"
    /\ NoNFTPattern
    /\ ~NoCollectionPattern
    /\ result = NoLinks("No Tezos marketplace links found in message")
    /\ DOMAIN objktRateLimit # {}

\* C4: when an entry point has returned for a non-empty match list, the
\* number of returned records plus the number of collected failure reasons
\* equals the number of matches; and when every task failed the result is a
\* failure carrying one reason per match, the i-th being that of task i.
C4_AllFailed ==
    (pc = "returned" /\ Len(matches) > 0) =>
        /\ Len(ReturnedData) + Len(errors) = Len(matches)
        /\ (\A i \in TaskIds : Failed(tasks[i])) =>
              /\ ~result.success
              /\ result.error # <<>>
              /\ Len(result.error[1].reasons) = Len(matches)
              /\ \A i \in TaskIds :
                    result.error[1].reasons[i].reason =
                        OrElse(tasks[i].out.error, <<"Unknown error">>)

\* both tasks of a two-link message failed
C4_Witness ==
    /\ pc = "returned"
    /\ Len(matches) = 2
    /\ \A i \in TaskIds : Failed(tasks[i])
    /\ ~result.success

\* C5: an entry point that has returned has resolved, never rejected, with a
\* structured result: a success with data and no error, or a failure with an
\* error and no data; and no per-match task has rejected.
C5_NoFaultEscapes ==
    /\ \A i \in TaskIds : ~Rejected(tasks[i])
    /\ pc = "returned" =>
          /\ result.settled = "fulfilled"
          /\ IF result.success
             THEN result.data # <<>> /\ result.error = <<>>
             ELSE result.data = <<>> /\ result.error # <<>>

\* an exception thrown inside a task was turned into that task's failure
C5_Witness ==
    /\ pc = "returned"
    /\ \E i \in TaskIds : tasks[i].out = Fail("Failed to fetch NFT data")

\* C6: a gate check made less than 60000 / rate ms after the last accepted
\* check of the same key is rejected; one made at or after that interval,
\* or for a key never accepted before, is accepted, however many checks were
\* rejected in between; and no request is issued on a rejected check.
C6_RateGate ==
    /\ \A k \in 1..Len(checks) :
          LET c == checks[k]
          IN  c.accepted <=> (c.prev = 0 \/ (c.at - c.prev) * rateLimit >= MinuteMs)
    /\ \A k \in 1..Len(requests) : requests[k].gate.checked => requests[k].gate.accepted

\* a key accepted before is accepted again exactly when the interval is over
C6_Witness ==
    \E k \in 1..Len(checks) :
        /\ checks[k].accepted
        /\ checks[k].prev # 0
        /\ (checks[k].at - checks[k].prev) * rateLimit = MinuteMs

\* C7: every outbound request was issued after a gate check that accepted it.
C7_EveryRequestGated ==
    \A k \in 1..Len(requests) : requests[k].gate.checked /\ requests[k].gate.accepted

FetchOps == {"token", "tzkt", "collection", "project", "gallery"}

ResolutionFailed(t) ==
    /\ t.pc = "done"
    /\ t.out.error \in { <<"Could not resolve contract address for path">>,
                         <<"Could not resolve contract address for">> }

\* C8: for a match whose contract identifier is not a KT1 address, every
\* token, collection or project fetch carries another identifier than the raw
\* one and follows a resolution (the built-in marketplace table or a path
\* lookup); and a match whose resolution failed has issued no such fetch.
C8_ResolvedBeforeFetch ==
    /\ \A k \in 1..Len(requests) :
          LET r     == requests[k]
              ident == matches[r.task].contractAddress
          IN  (ident # <<>> /\ ~isKTAddress(ident) /\ r.op \in FetchOps) =>
                  /\ r.contract # ident
                  /\ \/ InMarketplaceContracts(ident)
                     \/ \E j \in 1..(k - 1) :
                           requests[j].task = r.task /\ requests[j].op = "resolve"
    /\ \A i \in TaskIds :
          ResolutionFailed(tasks[i]) =>
              \A k \in 1..Len(requests) :
                  requests[k].task = i => requests[k].op \notin FetchOps

\* the sale type the spec's precedence gives a payload
ExpectedSaleType ==
    IF payload.open_edition_active # <<>> THEN "open_edition"
    ELSE IF payload.listings_active # <<>> THEN "listing"
    ELSE IF payload.english_auctions_active # <<>> THEN "english_auction"
    ELSE IF payload.dutch_auctions_active # <<>> THEN "dutch_auction"
    ELSE "none"

Normalized == nft # <<>> /\ nft[1].status = "ok"

\* C9: the record's sale type is the first of open_edition, listing,
\* english_auction, dutch_auction whose records the payload holds, none when
\* it holds none, and its price is taken from that type's record alone; an
\* open edition with a listing gives open_edition without an edition.
C9_SalePrecedence ==
    Normalized =>
        LET r == nft[1].data[1]
        IN  /\ r.saleType = <<ExpectedSaleType>>
            /\ ExpectedSaleType = "open_edition" =>
                  /\ r.price = XTZ(DivMillion(payload.open_edition_active[1].price))
                  /\ r.edition = <<>>
            /\ ExpectedSaleType = "listing" =>
                  r.price = XTZ(DivMillion(payload.listings_active[1].price))
            /\ ExpectedSaleType = "english_auction" =>
                  r.price \in { XTZ(DivMillion(Field(payload.english_auctions_active[1],
                                                     "current_price"))),
                                XTZ(DivMillion(payload.english_auctions_active[1].reserve)) }
            /\ ExpectedSaleType = "dutch_auction" =>
                  r.price = XTZ(DivMillion(Field(payload.dutch_auctions_active[1],
                                                 "current_price")))
            /\ ExpectedSaleType = "none" => r.price = <<>>

\* a payload with both auction kinds and no listing was normalised
C9_Witness ==
    /\ Normalized
    /\ payload.open_edition_active = <<>>
    /\ payload.listings_active = <<>>
    /\ payload.english_auctions_active # <<>>
    /\ payload.dutch_auctions_active # <<>>
    /\ nft[1].data[1].saleType = <<"english_auction">>

\* the optional fields each sale type carries, apart from the edition of none
SaleFields(r) ==
    /\ r.saleType = <<"open_edition">> =>
          r.price # <<>> /\ r.openEditionInfo # <<>> /\ r.edition = <<>>
    /\ r.saleType \in {<<"listing">>, <<"english_auction">>, <<"dutch_auction">>} =>
          r.price # <<>> /\ r.edition # <<>> /\ r.openEditionInfo = <<>>
    /\ r.saleType = <<"none">> => r.price = <<>> /\ r.openEditionInfo = <<>>

SupplyEdition == <<[current |-> <<1>>, total |-> payload.supply[1] ]>>

\* C10 as stated: with sale type none the edition is {1, supply} exactly
\* when the supply is known.
C10_FieldsBySaleType_AsStated ==
    Normalized =>
        LET r == nft[1].data[1]
        IN  /\ SaleFields(r)
            /\ r.saleType = <<"none">> =>
                  IF payload.supply # <<>> THEN r.edition = SupplyEdition
                  ELSE r.edition = <<>>

\* C10: open_edition has price and openEditionInfo and no edition; listing,
\* english_auction and dutch_auction have price and edition and no
\* openEditionInfo; none has neither price nor openEditionInfo, and has the
\* edition {1, supply} exactly when the supply is known and not zero.
C10_FieldsBySaleType ==
    Normalized =>
        LET r == nft[1].data[1]
        IN  /\ SaleFields(r)
            /\ r.saleType = <<"none">> =>
                  IF payload.supply # <<>> /\ payload.supply[1] # 0
                  THEN r.edition = SupplyEdition
                  ELSE r.edition = <<>>

\* a token without a sale whose supply is known to be zero has no edition
C10_Witness ==
    /\ Normalized
    /\ nft[1].data[1].saleType = <<"none">>
    /\ payload.supply = <<0>>
    /\ nft[1].data[1].edition = <<>>

SaleTypes == {"open_edition", "listing", "dutch_auction", "english_auction", "none"}

\* C11: every NFT record processMessage returned carries a saleType that
\* is one of open_edition, listing, dutch_auction, english_auction, none.
C11_SaleTypeAlwaysSet ==
    (pc = "returned" /\ entry = "processMessage") =>
        \A k \in 1..Len(ReturnedData) :
            /\ ReturnedData[k].saleType # <<>>
            /\ ReturnedData[k].saleType[1] \in SaleTypes

\* C13: every collection record processCollections returned has a contract
\* that satisfies the KT1 pattern.
C13_CollectionContractIsKT ==
    (pc = "returned" /\ entry = "processCollections") =>
        \A k \in 1..Len(ReturnedData) : isKTAddress(ReturnedData[k].contract)

\* n minor units as major units
Millionth(n) == [nan |-> FALSE, num |-> n, den |-> 1000000]

\* the upstream amounts of the sale record the NFT's price was taken from
UpstreamPrices(metadata, saleType) ==
    LET sale == CASE saleType = "open_edition"    -> metadata.open_edition_active
                  [] saleType = "listing"         -> metadata.listings_active
                  [] saleType = "english_auction" -> metadata.english_auctions_active
                  [] saleType = "dutch_auction"   -> metadata.dutch_auctions_active
                  [] OTHER                        -> <<>>
    IN  IF sale = <<>> THEN {}
        ELSE { Field(sale[1], f)[1] :
                   f \in { g \in {"price", "current_price", "reserve"} :
                               Field(sale[1], g) # <<>> } }

\* the upstream field a canonical monetary field is taken from
UpstreamField(f) ==
    CASE f = "floorPrice"  -> "floor_price"
      [] f = "volume24h"   -> "volume_24h"
      [] f = "volumeTotal" -> "volume_total"

\* every monetary field present in rec is the upstream object's amount / 1000000
CollectionMoneyDivided(rec, upstream) ==
    \A f \in {"floorPrice", "volume24h", "volumeTotal"} :
        rec[f] # <<>> =>
            /\ Field(upstream, UpstreamField(f)) # <<>>
            /\ rec[f][1] = Millionth(Field(upstream, UpstreamField(f))[1])

C14_OneMatchPerCollectionURL ==
    (entry = "processCollections" /\ pc # "idle" /\ content \in CollectionWords) =>
        /\ Len(matches) = 1
        /\ matches[1].url = content
        /\ (\E i \in 1..Len(content) : content[i] = "/projects/") =>
               /\ matches[1].contractAddress = <<"a", "b">>
               /\ matches[1].projectId = <<"1">>

\* the patterns an entry point's detection runs
PatternsOf(e) == IF e = "processMessage" THEN MARKETPLACE_PATTERNS ELSE COLLECTION_PATTERNS

\* the positions of t at which pat matches
Hits(pat, t) == {s \in 1..Len(t) : MatchAt(pat, t, s).found}

\* the occurrence of pat in t that starts first
Leftmost(pat, t) ==
    MatchAt(pat, t, CHOOSE s \in Hits(pat, t) : \A s2 \in Hits(pat, t) : s <= s2)

\* C15: each pattern that occurs in the message, however often, gives
\* exactly one match, its leftmost occurrence, and no match for a later
\* occurrence; every pattern that occurs gives its match, so the matches are
\* as many as the patterns that occur and never more than the patterns.
C15_FirstMatchPerPattern ==
    (pc = "returned" /\ entry \in {"processMessage", "processCollections"}) =>
        LET pats == PatternsOf(entry)
        IN  /\ Len(pats) = IF entry = "processMessage" THEN 8 ELSE 6
            /\ Len(matches) <= Len(pats)
            /\ Len(matches) =
                   Cardinality({i \in 1..Len(pats) : Hits(pats[i], content) # {}})
            /\ \A i \in 1..Len(pats) :
                   Hits(pats[i], content) # {} =>
                       /\ Cardinality({k \in 1..Len(matches) :
                              /\ matches[k].url = Leftmost(pats[i], content).url
                              /\ matches[k].marketplace = pats[i].name}) = 1
                       /\ \A s \in Hits(pats[i], content) :
                              MatchAt(pats[i], content, s).url # Leftmost(pats[i], content).url
                                  => \A k \in 1..Len(matches) :
                                         matches[k].url # MatchAt(pats[i], content, s).url

\* a message with two different links of one pattern and a link of another
\* pattern: two matches
C15_Witness ==
    /\ pc # "idle"
    /\ entry = "processMessage"
    /\ Len(matches) = 2
    /\ \E i \in 1..Len(MARKETPLACE_PATTERNS) :
           \E s1, s2 \in Hits(MARKETPLACE_PATTERNS[i], content) :
               /\ s1 < s2
               /\ MatchAt(MARKETPLACE_PATTERNS[i], content, s1).g2
                      # MatchAt(MARKETPLACE_PATTERNS[i], content, s2).g2

\* the match came from an OBJKT /collections/{path}/projects/{id} link
IsProjectLink(m) ==
    /\ m.marketplace = "OBJKT"
    /\ \E i \in 1..Len(m.url) : m.url[i] = "/projects/"

\* C16 as stated: every collection match has exactly one of contractAddress
\* and projectId.
C16_ExactlyOneKey_AsStated ==
    (pc # "idle" /\ entry = "processCollections") =>
        \A k \in 1..Len(matches) :
            (matches[k].contractAddress # Undef) # (matches[k].projectId # Undef)

\* C16: no collection match lacks both contractAddress and projectId; a
\* match has both exactly when it came from an OBJKT
\* /collections/{path}/projects/{id} link, and exactly one otherwise.
C16_ExactlyOneKey ==
    (pc # "idle" /\ entry = "processCollections") =>
        \A k \in 1..Len(matches) :
            /\ matches[k].contractAddress # Undef \/ matches[k].projectId # Undef
            /\ (matches[k].contractAddress # Undef /\ matches[k].projectId # Undef)
                   <=> IsProjectLink(matches[k])

\* an OBJKT project link was detected: its match has both keys
C16_Witness ==
    /\ pc # "idle"
    /\ entry = "processCollections"
    /\ \E k \in 1..Len(matches) :
           /\ IsProjectLink(matches[k])
           /\ matches[k].contractAddress = <<"a", "b">>
           /\ matches[k].projectId = <<"1">>

\* C17: the contractAddress of every match of an EditArt token-detail or
\* series link satisfies the KT1 validator.
C17_EditArtContractIsKT ==
    (pc # "idle" /\ entry \in {"processMessage", "processCollections"}) =>
        \A k \in 1..Len(matches) :
            matches[k].marketplace = "EditArt" => isKTAddress(matches[k].contractAddress)

\* C19 as stated: once a request issued for a match has failed, no further
\* request is issued for that match in the invocation.
C19_SingleAttempt_AsStated ==
    \A k, l \in 1..Len(requests) :
        (k < l /\ requests[k].task = requests[l].task) => requests[k].outcome # "failed"

\* C19: no kind of request is issued twice for a match in an invocation,
\* and a request follows a failed request of the same match only as the
\* contract query processCollections falls back to after a failed project
\* lookup.
C19_SingleAttempt ==
    \A k, l \in 1..Len(requests) :
        (k < l /\ requests[k].task = requests[l].task) =>
            /\ requests[k].op # requests[l].op
            /\ requests[k].outcome = "failed" =>
                   /\ entry = "processCollections"
                   /\ requests[k].op = "project"
                   /\ requests[l].op \in {"resolve", "collection"}

\* a task whose lookup failed has settled having issued that one request;
\* another task's project lookup failed and its fallback requests followed
C19_Witness ==
    /\ pc = "awaiting"
    /\ entry = "processCollections"
    /\ \E i \in TaskIds :
           /\ Failed(tasks[i])
           /\ Cardinality({k \in 1..Len(requests) : requests[k].task = i}) = 1
           /\ \E k \in 1..Len(requests) :
                  requests[k].task = i /\ requests[k].outcome = "failed"
    /\ \E k, l \in 1..Len(requests) :
           /\ k < l
           /\ requests[k].task = requests[l].task
           /\ requests[k].outcome = "failed"
           /\ requests[l].op = "collection"

\* the records the handler got from the two entry points
BotRecords(r) == IF HasData(r) THEN {r.data[1][k] : k \in 1..Len(r.data[1])} ELSE {}

\* the urls of the links detected in the message
MatchedUrls ==
    LET nfts        == detectNFTLinks(content)
        collections == detectCollectionLinks(content)
    IN  {nfts[k].url : k \in 1..Len(nfts)}
            \cup {collections[k].url : k \in 1..Len(collections)}

\* u is a run of consecutive atoms of t
IsSubstring(u, t) == \E i \in 1..Len(t) : \E j \in i..Len(t) : SubSeq(t, i, j) = u

\* the cards of the preview the handler sent
PreviewCards ==
    IF botPc = "done" /\ reply # <<>> /\ reply[1].kind = "preview"
    THEN {reply[1].embeds[k] : k \in 1..Len(reply[1].embeds)}
    ELSE {}

\* the part of a url before its query
BeforeQuery(u) ==
    IF \E i \in 1..Len(u) : u[i] = "?"
    THEN SubSeq(u, 1, (CHOOSE i \in 1..Len(u) : u[i] = "?" /\ \A j \in 1..(i - 1) : u[j] # "?") - 1)
    ELSE u

\* link is url with its ref parameter replaced by, or with an added,
\* ref=<address>: same scheme, host (in lower case) and path, one ref
\* parameter, the address, at the end
IsReferralLinkOf(link, url, address) ==
    /\ Len(BeforeQuery(link)) = Len(BeforeQuery(url))
    /\ \A i \in 1..Len(BeforeQuery(url)) :
           BeforeQuery(link)[i] = IF i = 2 THEN Lower(url[2]) ELSE url[i]
    /\ Len(link) >= Len(BeforeQuery(link)) + 3
    /\ link[Len(BeforeQuery(link)) + 1] = "?"
    /\ SubSeq(link, Len(link) - 1, Len(link)) = <<"ref=">> \o address
    /\ \A i \in 1..(Len(link) - 2) : link[i] \notin {"ref=", "ref=x"}

\* C18 as stated: the link of every card of a preview is the url of a match
\* of the message, under every configuration.
C18_LinkIsMatchedUrl_AsStated ==
    PreviewCards # {} =>
        LET urls == MatchedUrls
        IN  \A card \in PreviewCards : card.url # <<>> /\ card.url[1] \in urls

\* C18: every record the handler renders carries the url of a match, a
\* substring of the message; the link of every card of a preview is that
\* url when no referral address is configured or the url has no scheme, and
\* otherwise that url with its ref parameter set to the referral address.
C18_LinkIsMatchedUrl ==
    botPc = "done" =>
        LET urls == MatchedUrls
        IN  /\ \A rec \in BotRecords(nftResult) \cup BotRecords(collectionsResult) :
                   /\ rec.marketplace.url \in urls
                   /\ IsSubstring(rec.marketplace.url, content)
            /\ \A card \in PreviewCards :
                   /\ card.url # <<>>
                   /\ \E url \in urls :
                          IF referral = <<>> \/ url[1] \notin SchemeAtoms
                          THEN card.url[1] = url
                          ELSE IsReferralLinkOf(card.url[1], url, referral)

\* a preview sent with a referral address configured, with a card whose
\* link is the matched url and a card whose link was rewritten
C18_Witness ==
    /\ referral # <<>>
    /\ PreviewCards # {}
    /\ LET urls == MatchedUrls
       IN  /\ \E card \in PreviewCards : card.url[1] \in urls
           /\ \E card \in PreviewCards :
                  /\ card.url[1] \notin urls
                  /\ \E url \in urls : IsReferralLinkOf(card.url[1], url, referral)

\* the limits the validator enforces, and a card that serialises
WithinLimits(card) ==
    /\ card.serializable
    /\ card.title <= 256
    /\ card.description <= 4096
    /\ card.fields <= 25

\* how many records of r give a card within the limits
ValidCount(r, isNFT) ==
    IF ~HasData(r) THEN 0
    ELSE Cardinality({k \in 1..Len(r.data[1]) :
             WithinLimits(IF isNFT THEN createNFTEmbed(r.data[1][k])
                          ELSE createCollectionEmbed(r.data[1][k]))})

\* how many cards of the given kind the reply holds
SentCount(kind) ==
    Cardinality({k \in 1..Len(reply[1].embeds) : reply[1].embeds[k].kind = kind})

\* C20: every card of a preview the handler sends is within the validator's
\* limits; the preview holds the cards of all records whose card is valid,
\* NFT cards before collection cards, cut to the first ten; after the
\* loading reply a preview is sent exactly when some card is valid.
C20_OnlyValidCardsSent ==
    (botPc = "done" /\ reply # <<>> /\ reply[1].kind # "error") =>
        LET valid == ValidCount(nftResult, TRUE) + ValidCount(collectionsResult, FALSE)
            sent  == reply[1].embeds
        IN  /\ (\E c \in 1..Len(chat) : chat[c].call = "edit" /\ chat[c].kind = "preview")
                   <=> valid > 0
            /\ reply[1].kind = "preview" => valid > 0
            /\ reply[1].kind = "preview" =>
                   /\ \A k \in 1..Len(sent) : WithinLimits(sent[k])
                   /\ Len(sent) <= 10
                   /\ Len(sent) = IF valid < 10 THEN valid ELSE 10
                   /\ \A i, j \in 1..Len(sent) :
                          i < j => ~(sent[i].kind = "collection" /\ sent[j].kind = "nft")
                   /\ SentCount("nft") =
                          IF ValidCount(nftResult, TRUE) < 10
                          THEN ValidCount(nftResult, TRUE) ELSE 10

\* a preview of ten cards, of both kinds, sent although the first NFT card
\* failed validation and eleven cards were valid
C20_Witness ==
    /\ botPc = "done"
    /\ reply # <<>>
    /\ reply[1].kind = "preview"
    /\ Len(reply[1].embeds) = 10
    /\ SentCount("nft") = 7
    /\ SentCount("collection") = 3
    /\ ValidCount(nftResult, TRUE) = 7
    /\ Len(nftResult.data[1]) = 8
    /\ ValidCount(collectionsResult, FALSE) = 4

\* the texts of the failures an entry point returned: its message and the
\* reason of every match
ErrorTexts(r) ==
    IF r.error = <<>> THEN {}
    ELSE {r.error[1].msg}
         \cup {r.error[1].reasons[k].reason[1] : k \in 1..Len(r.error[1].reasons)}

\* the two fixed texts of the error card that replaces the loading card
GenericErrorTexts ==
    {"Failed to generate NFT preview",
     "Unable to fetch or process NFT data. Please try again later."}

\* the loading card is the bot's first message
LoadingShown == reply # <<>> /\ reply[1].kind = "loading"

\* the first message is the preview, or one error card with the fixed texts
Replaced ==
    /\ reply # <<>>
    /\ \/ reply[1].kind = "preview" /\ Len(reply[1].embeds) >= 1
       \/ /\ reply[1].kind = "error"
          /\ Len(reply[1].embeds) = 1
          /\ reply[1].embeds[1].texts = GenericErrorTexts

\* the chat platform rejected the edit with the error card
ErrorEditRejected ==
    \E c \in 1..Len(chat) : chat[c].call = "edit" /\ chat[c].kind = "error" /\ ~chat[c].ok

\* without a record the handler makes no chat call and posts nothing; a
\* preview is made of NFT and collection cards only; an error card shows
\* fixed texts, none of them a text of the failures the entry points returned
SilentOrGeneric ==
    /\ (botPc \in {"loading", "failed", "caught", "done"} /\ ~Ignored
            /\ ~HasData(nftResult) /\ ~HasData(collectionsResult))
           => (reply = <<>> /\ chat = <<>>)
    /\ \A k \in 1..Len(reply) :
          /\ reply[k].kind \in {"loading", "preview", "error"}
          /\ \A e \in 1..Len(reply[k].embeds) :
                LET card == reply[k].embeds[e]
                IN  /\ reply[k].kind = "preview" <=> card.kind \in {"nft", "collection"}
                    /\ card.kind = "error" =>
                          card.texts \cap (ErrorTexts(nftResult)
                                           \cup ErrorTexts(collectionsResult)) = {}

SucceededTasks == {i \in 1..Len(tasks) : Succeeded(tasks[i])}

\* the index of the p-th successful task, in match order
NthSucceeded(p) ==
    CHOOSE i \in SucceededTasks : Cardinality({j \in SucceededTasks : j <= i}) = p

\* when task i settled: the rank of the answer to its last request
SettledAt(i) ==
    LET mine == {requests[k].answered : k \in {j \in 1..Len(requests) : requests[j].task = i}}
    IN  IF mine = {} THEN 0 ELSE CHOOSE a \in mine : \A b \in mine : b <= a

\* the returned list holds the records of the successful tasks by ascending
\* match index
InMatchOrder ==
    /\ result.data # <<>>
    /\ Len(result.data[1]) = Cardinality(SucceededTasks)
    /\ \A p \in 1..Len(result.data[1]) :
          result.data[1][p] = tasks[NthSucceeded(p)].out.data[1]

\* an earlier record of the returned list belongs to a task that settled
\* earlier
InCompletionOrder ==
    /\ result.data # <<>>
    /\ Len(result.data[1]) = Cardinality(SucceededTasks)
    /\ \E f \in [1..Len(result.data[1]) -> SucceededTasks] :
          /\ \A p \in DOMAIN f : result.data[1][p] = tasks[f[p]].out.data[1]
          /\ \A p, q \in DOMAIN f : p < q => SettledAt(f[p]) < SettledAt(f[q])

\* C22 as stated: the records processMessage returns are in the order in
\* which their tasks completed.
C22_CompletionOrder_AsStated ==
    (pc = "returned" /\ entry = "processMessage" /\ result.success) => InCompletionOrder

\* C22: the records processMessage returns are in the order of the detected
\* matches, whatever order their tasks completed in.
C22_MatchOrder ==
    (pc = "returned" /\ entry = "processMessage" /\ result.success) => InMatchOrder

\* processMessage returned two different records, the second match's task
\* having settled before the first's
C22_Witness ==
    /\ pc = "returned"
    /\ entry = "processMessage"
    /\ result.success
    /\ Len(result.data[1]) = 2
    /\ result.data[1][1] # result.data[1][2]
    /\ SettledAt(2) < SettledAt(1)

\* C23: the records processCollections returns are in the order of the
\* detected matches, whatever order the tasks completed in and whichever
\* matches failed.
C23_CollectionsMatchOrder ==
    (pc = "returned" /\ entry = "processCollections" /\ result.success) => InMatchOrder

\* processCollections returned the records of two matches, the later
\* match's task having settled first, while the task of another match failed
C23_Witness ==
    /\ pc = "returned"
    /\ entry = "processCollections"
    /\ result.success
    /\ Len(result.data[1]) = 2
    /\ result.data[1][1] # result.data[1][2]
    /\ \E i, j \in SucceededTasks : i < j /\ SettledAt(j) < SettledAt(i)
    /\ \E k \in 1..Len(tasks) : Failed(tasks[k])

\* the tasks one of whose requests was aborted at the 10 second bound
AbortedTasks(ops) == {a.task : a \in {b \in aborted : b.op \in ops}}

AllOps == {"token", "resolve", "collection", "project", "gallery", "tzkt"}

\* an entry point has returned only with every task settled, and no task
\* with an aborted request of the kinds ops has contributed a record
SettledAndAbortedFailed(ops) ==
    pc = "returned" =>
        /\ \A i \in 1..Len(tasks) : tasks[i].pc = "done"
        /\ \A i \in AbortedTasks(ops) : i \in 1..Len(tasks) => Failed(tasks[i])

\* the answer to a request of one task, an abort included, leaves every
\* other task as it is
SiblingsUntouched ==
    (pc = "awaiting" /\ requests' # requests /\ Len(tasks') = Len(tasks)) =>
        Cardinality({i \in 1..Len(tasks) : tasks'[i] # tasks[i]}) <= 1

\* C24 as stated: every invocation returns, only after every task has
\* settled; an aborted request makes its own match fail and no other.
C24_Terminates_AsStated ==
    /\ [](SettledAndAbortedFailed(AllOps))
    /\ [][SiblingsUntouched]_vars
    /\ (pc = "awaiting") ~> (pc = "returned")

\* C24: every invocation returns, only after every task has settled; an
\* aborted request touches no other task and makes its own match fail,
\* except an aborted project or gallery lookup, after which the task goes on
\* with the lookup by contract.
C24_Terminates ==
    /\ [](SettledAndAbortedFailed(AllOps \ {"project", "gallery"}))
    /\ [][SiblingsUntouched]_vars
    /\ (pc = "awaiting") ~> (pc = "returned")

\* an entry point returned the record of one match while the only request
\* of the other match had been aborted
C24_Witness ==
    /\ pc = "returned"
    /\ Len(tasks) = 2
    /\ result.success
    /\ \E i \in AbortedTasks(AllOps) : \E j \in SucceededTasks : i # j

\* the fields the token-detail query of getTokenMetadata asks for in an
\* English and in a Dutch auction (the amounts; *_xtz, end_time, amount_left
\* and currency are left out of the payloads)
QueriedEnglishFields == {"reserve", "highest_bid"}

QueriedDutchFields == {"start_price", "end_price"}

\* the payload is an answer to the query: its auctions have queried fields only
AsQueried(metadata) ==
    /\ \A k \in 1..Len(metadata.english_auctions_active) :
          DOMAIN metadata.english_auctions_active[k] \subseteq QueriedEnglishFields
    /\ \A k \in 1..Len(metadata.dutch_auctions_active) :
          DOMAIN metadata.dutch_auctions_active[k] \subseteq QueriedDutchFields

\* C25: for an answer to the token-detail query with an active auction, no
\* open edition and no listing, the amount is a number: in an English
\* auction the highest bid when there is one, else the reserve, over
\* 1,000,000; in a Dutch auction a price between its end and start price
\* over 1,000,000.
C25_AuctionPriceDefined ==
    (/\ Normalized
     /\ AsQueried(payload)
     /\ payload.open_edition_active = <<>>
     /\ payload.listings_active = <<>>
     /\ payload.english_auctions_active # <<>> \/ payload.dutch_auctions_active # <<>>) =>
        LET record == nft[1].data[1]
            amount == record.price[1].amount
        IN  /\ record.price # <<>>
            /\ ~amount.nan
            /\ amount.den = 1000000
            /\ IF payload.english_auctions_active # <<>>
               THEN LET auction == payload.english_auctions_active[1]
                    IN  amount.num = IF Field(auction, "highest_bid") # <<>>
                                     THEN auction.highest_bid[1] ELSE auction.reserve[1]
               ELSE LET auction == payload.dutch_auctions_active[1]
                    IN  /\ auction.end_price[1] <= amount.num
                        /\ amount.num <= auction.start_price[1]

\* a link that addresses a project of fxhash or Bootloader
IsGalleryLink(m) == m.marketplace \in {"fxhash", "Bootloader"} /\ m.projectId # <<>>

\* the requests of task i so far
RequestsOf(i) == {k \in 1..Len(requests) : requests[k].task = i}

\* rec has the contract of the first sampled token of gallery g and the
\* five figures of g itself
SynthesizedFrom(rec, g) ==
    /\ g.tokens # <<>>
    /\ rec.contract = g.tokens[1].token.fa_contract
    /\ rec.items = Field(g, "items")
    /\ rec.editions = Field(g, "editions")
    /\ rec.owners = Field(g, "owners")
    /\ rec.floorPrice = <<Millionth(g.floor_price[1])>>
    /\ rec.volume24h = <<Millionth(g.volume_24h[1])>>
    /\ rec.volumeTotal = <<>>

\* C26: the record of an fxhash or Bootloader project link is synthesized
\* from the project lookup alone: its contract is that of the first sampled
\* token and its figures are those of the project; there is a record only
\* when the lookup was answered with a project that has a sampled token.
C26_ProjectSynthesized ==
    \A i \in 1..Len(tasks) :
        (pc # "idle" /\ entry = "processCollections" /\ IsGalleryLink(tasks[i].m)
             /\ tasks[i].pc = "done") =>
            /\ Succeeded(tasks[i]) =>
                  /\ \E g \in GalleryPayloads : SynthesizedFrom(tasks[i].out.data[1], g)
                  /\ \A k \in RequestsOf(i) :
                        requests[k].op = "gallery" /\ requests[k].outcome = "ok"
                  /\ Cardinality(RequestsOf(i)) = 1
            /\ (\A k \in RequestsOf(i) : requests[k].outcome # "ok") => ~Succeeded(tasks[i])

\* an fxhash project link and a Bootloader project link in one message, the
\* first with a synthesized record, the second without a record
C26_Witness ==
    /\ pc = "returned"
    /\ entry = "processCollections"
    /\ \E i, j \in 1..Len(tasks) :
          /\ tasks[i].m.marketplace = "fxhash"
          /\ tasks[j].m.marketplace = "Bootloader"
          /\ IsGalleryLink(tasks[i].m)
          /\ IsGalleryLink(tasks[j].m)
          /\ Succeeded(tasks[i])
          /\ tasks[i].out.data[1].items = <<7>>
          /\ Failed(tasks[j])

\* the rate map of service api
RateMapOf(api) == IF api = "objkt" THEN objktRateLimit ELSE tzktRateLimit

\* C27: two accepted checks of one key of one service are at least
\* 60000 / rate ms apart, also the checks the tasks of one invocation make
\* in the same step; the time a service keeps for a key is that of the key's
\* last accepted check, so a rejected check has left it as it was.
C27_GateAtomic ==
    /\ \A k, l \in 1..Len(checks) :
          (/\ k < l
           /\ checks[k].api = checks[l].api
           /\ checks[k].endpoint = checks[l].endpoint
           /\ checks[k].accepted
           /\ checks[l].accepted) =>
              (checks[l].at - checks[k].at) * rateLimit >= MinuteMs
    /\ \A k \in 1..Len(checks) :
          /\ checks[k].accepted =>
                \/ checks[k].prev = 0
                \/ (checks[k].at - checks[k].prev) * rateLimit >= MinuteMs
          /\ checks[k].accepted =>
                MapGet(lastAccepted, <<checks[k].api, checks[k].endpoint>>) = checks[k].at
          /\ (~checks[k].accepted /\ \A l \in 1..Len(checks) :
                  (checks[l].api = checks[k].api /\ checks[l].endpoint = checks[k].endpoint)
                      => ~checks[l].accepted) =>
                MapGet(RateMapOf(checks[k].api), checks[k].endpoint) = checks[k].prev
    /\ \A key \in DOMAIN lastAccepted :
          MapGet(RateMapOf(key[1]), key[2]) = lastAccepted[key]
    /\ DOMAIN lastAccepted =
          {<<"objkt", e>> : e \in DOMAIN objktRateLimit}
              \cup {<<"tzkt", e>> : e \in DOMAIN tzktRateLimit}

\* two tasks of one invocation checked the same key in the same step: the
\* first was accepted, the second rejected, and the key keeps the time of
\* the first
C27_Witness ==
    \E k, l \in 1..Len(checks) :
        /\ k < l
        /\ checks[k].api = checks[l].api
        /\ checks[k].endpoint = checks[l].endpoint
        /\ checks[k].accepted
        /\ ~checks[l].accepted
        /\ checks[k].prev # 0
        /\ MapGet(RateMapOf(checks[k].api), checks[k].endpoint) = checks[k].at

\* check k is the first of its key among the checks of the latest step
FirstOfKey(k) ==
    \A l \in 1..(k - 1) :
        ~(checks[l].api = checks[k].api /\ checks[l].endpoint = checks[k].endpoint)

\* the contract and the token or project a match identifies
TargetOf(m) == <<Field(m, "contractAddress"), Field(m, "tokenId"), Field(m, "projectId")>>

\* the entry point has just dispatched the tasks of a message of two links
\* with different targets, and no key the tasks checked first had an
\* accepted check within the rate interval before
TwoLinksDispatched(name) ==
    /\ pc = "awaiting"
    /\ entry = name
    /\ content \in MixedMessages
    /\ Len(matches) = 2
    /\ TargetOf(matches[1]) # TargetOf(matches[2])
    /\ checks # <<>>
    /\ \A k \in 1..Len(requests) : requests[k].answered = 0
    /\ \A k \in 1..Len(checks) :
          FirstOfKey(k) =>
              (checks[k].prev = 0 \/ (checks[k].at - checks[k].prev) * rateLimit >= MinuteMs)

\* C28: with two links of different targets in one message and no accepted
\* call within the rate interval before, no task is refused by the rate
\* gate because of its sibling: every gate check of the dispatch is
\* accepted, and no task has failed before its request was answered.
C28_SiblingsIndependent ==
    \A name \in {"processMessage", "processCollections"} :
        TwoLinksDispatched(name) =>
            /\ \A k \in 1..Len(checks) : checks[k].accepted
            /\ \A i \in 1..Len(tasks) : ~Failed(tasks[i])

\* C29: every record an entry point returns carries, as marketplace.name,
\* the marketplace name of the detected match it was built from, for all six
\* marketplaces.
C29_MarketplaceNameKept ==
    (pc = "returned" /\ result.success) =>
        \A p \in 1..Len(result.data[1]) :
            result.data[1][p].marketplace.name = matches[NthSucceeded(p)].marketplace

\* the chat-platform calls of the handler that are replies
ReplyCalls == {c \in 1..Len(chat) : chat[c].call = "reply"}

\* C30: the handler never throws; when every chat-platform call succeeds it
\* posts at most one reply; for a message of a bot or of whitespace only it
\* calls neither entry point of the service, so nothing is detected or
\* requested, and it makes no chat-platform call; and the loading card is
\* posted only after processMessage and processCollections have both
\* returned and at least one of them returned a non-empty record list.
C30_HandlerContained ==
    /\ botPc # "thrown"
    /\ (\A c \in 1..Len(chat) : chat[c].ok) =>
           (Cardinality(ReplyCalls) <= 1 /\ Len(reply) <= 1)
    /\ Ignored =>
           /\ entry = "none" /\ pc = "idle" /\ matches = <<>> /\ requests = <<>>
           /\ nftResult = NoResult /\ collectionsResult = NoResult
           /\ chat = <<>> /\ reply = <<>>
    /\ (\E c \in 1..Len(chat) : chat[c].kind = "loading") =>
           /\ nftResult.settled # "pending"
           /\ collectionsResult.settled # "pending"
           /\ HasData(nftResult) \/ HasData(collectionsResult)

\* the loading card was posted, both edits and the reply of the outer catch
\* were rejected, and the handler has returned
C30_Witness ==
    /\ botPc = "done"
    /\ Len(chat) = 4
    /\ chat[1] = [call |-> "reply", kind |-> "loading", ok |-> TRUE]
    /\ chat[4] = [call |-> "reply", kind |-> "error", ok |-> FALSE]
    /\ Len(reply) = 1

=============================================================================
